---- MODULE Spec2Model ----
(***************************************************************************)
(* Model of the moonlight-web streamer's video relay                       *)
(* (streamer/src/video.rs), its FFmpeg pipeline adapter                    *)
(* (streamer/src/ffmpeg.rs) and the web-socket transport sender            *)
(* (streamer/src/transport/web_socket/mod.rs).                             *)
(*                                                                         *)
(* Option<T> is modelled as a sequence: None is <<>> and Some(x) is <<x>>. *)
(* Bytes are the naturals 0..255; a Vec<u8> is a sequence of bytes.        *)
(***************************************************************************)
EXTENDS Integers, Sequences, FiniteSets, TLC

VARIABLES
    stream_alive,       \* Weak<StreamConnection>::upgrade() succeeds
    transport_sender,   \* StreamConnection.transport_sender is Some
    reencode_settings,  \* StreamConnection.reencode_settings : Option<settings>
    stream_setup,       \* StreamConnection.stream_setup.video : Option<VideoSetup>
    ffmpeg,             \* StreamVideoDecoder.ffmpeg : Option<FfmpegPipeline>
    cached_sps,         \* StreamVideoDecoder.cached_sps : Option<Vec<u8>>
    cached_pps,         \* StreamVideoDecoder.cached_pps : Option<Vec<u8>>
    needs_headers,      \* StreamVideoDecoder.needs_headers
    waiting_for_idr,    \* StreamVideoDecoder.waiting_for_idr
    needs_idr,          \* WebSocketTransportSender.needs_idr (AtomicBool)
    receiver_alive,     \* the Receiver half of the event channel is not dropped
    event_queue,        \* the events buffered in the mpsc channel, oldest first
    rtt,                \* WebSocketTransportSender.rtt : (Instant, u16)
    rtt_rounds,         \* recv_rtt rounds spawned by on_ipc_message, unfinished
    probes,             \* probes sent: highest number, age of the pair, rounds run
    last,               \* what the latest call returned and handed on
    scan,               \* the frame under scan of the parameter-set scanner
    put_overflow,       \* what ByteBuffer does with a write past its slice
    stats,              \* StreamVideoDecoder.stats : VideoStats
    window              \* the samples folded in since the latest emission

vars == <<stream_alive, transport_sender, reencode_settings, stream_setup,
          ffmpeg, cached_sps, cached_pps, needs_headers, waiting_for_idr,
          needs_idr, receiver_alive, event_queue, rtt, rtt_rounds, probes,
          last, scan, put_overflow, stats, window>>

relayVars == <<ffmpeg, cached_sps, cached_pps, needs_headers, waiting_for_idr>>
sessionVars == <<stream_alive, transport_sender, reencode_settings, stream_setup>>
rttVars == <<rtt, rtt_rounds, probes>>
channelVars == <<needs_idr, receiver_alive, event_queue, rttVars>>
statsVars == <<stats, window>>

----------------------------------------------------------------------------
(* Bounds of the model. *)

\* events of earlier calls still buffered in the channel when a call sends
\* (the code's channel holds 20 events)
MaxBacklog == 0
\* events of earlier calls still buffered when the decoder sends to a receiver
\* that lags behind
MaxQueued == 1
\* NAL units per frame handed to the parameter-set scanner
MaxNals == 2
\* scans of one frame in a row
MaxScans == 2
\* recv_rtt rounds spawned by on_ipc_message in a run
MaxRounds == 2
\* quiescence intervals that pass without a write of the RTT pair
MaxIdle == 2
\* units folded into the stats between two emissions
MaxWindow == 3

----------------------------------------------------------------------------
(* Option and byte-sequence helpers. *)

None == <<>>
Some(x) == <<x>>
IsSome(o) == o # <<>>
Unwrap(o) == o[1]

RECURSIVE Concat(_)
\* full_frame.extend_from_slice(buffer.data) for every buffer, in order
Concat(buffers) ==
    IF buffers = <<>> THEN <<>> ELSE Head(buffers) \o Concat(Tail(buffers))

RECURSIVE SumLen(_)
\* incoming_bytes: the saturating sum of the buffers' lengths
SumLen(buffers) ==
    IF buffers = <<>> THEN 0 ELSE Len(Head(buffers)) + SumLen(Tail(buffers))

\* data[i] with Rust's zero-based index
At(data, i) == data[i + 1]

----------------------------------------------------------------------------
(* The inputs the model draws from. *)

SC3 == <<0, 0, 1>>
SC4 == <<0, 0, 0, 1>>
\* NAL payloads: 0x67 SPS, 0x68 PPS, 0x65 IDR slice, 0x41 non-IDR slice
NalSps == <<103, 66>>
NalPps == <<104, 206>>
NalIdr == <<101, 136>>
NalSlice == <<65, 154>>

\* a VideoDecodeUnit: buffers, frame type, presentation time, RTP timestamp,
\* host processing latency.  The presentation time in microseconds is
\* hi * 2^32 + lo.
Unit(ft, bufs, hi, lo, rtp) ==
    [frame_type |-> ft, buffers |-> bufs,
     presentation_time |-> [hi |-> hi, lo |-> lo],
     rtp_timestamp |-> rtp, frame_processing_latency |-> None]

\* a non-keyframe slice
UnitP == Unit("PFrame", <<SC4 \o NalSlice>>, 0, 16000, 1440)
\* a unit declared Idr that carries SPS, PPS and a slice in three buffers and
\* no IDR NAL; its presentation time is past 2^32 microseconds
UnitK == Unit("Idr", <<SC4 \o NalSps, SC4 \o NalPps, SC3 \o NalSlice>>, 1, 33000, 2970)
\* a non-keyframe carrying an SPS only
UnitS == Unit("PFrame", <<SC4 \o NalSps, SC3 \o NalSlice>>, 0, 50000, 4500)
\* an IDR slice without parameter sets, declared a P frame
UnitI == Unit("PFrame", <<SC3 \o NalIdr>>, 0, 66000, 5940)

Units == {UnitP, UnitK, UnitS, UnitI}

\* units whose host reports its processing latency, and one that does not
UnitL == [UnitP EXCEPT !.frame_processing_latency = Some(7)]
UnitM == [UnitK EXCEPT !.frame_processing_latency = Some(4)]
StatsUnits == {UnitP, UnitL, UnitM}

\* the time between the decoder's previous reading of the clock and the start
\* of a call, and the time a call takes to process its unit, in milliseconds
Gaps == {0, 700, 1200}
ProcessingTimes == {100, 300}
\* units that arrive more than a second apart and are processed at once
PacedGaps == {1200}
PacedTimes == {0}

\* stream.config.video.ffmpeg.preset, the session's default preset
DefaultPreset == "superfast"

ReencodeBase ==
    [enabled |-> TRUE, codec |-> "H264", bitrate_kbps |-> 4000,
     preset |-> None, threads |-> None]

\* the settings an external actor may store: absent, disabled, and enabled
\* ones that differ from ReencodeBase in one field each
ReencodeChoices ==
    { None,
      Some([ReencodeBase EXCEPT !.enabled = FALSE]),
      Some(ReencodeBase),
      Some([ReencodeBase EXCEPT !.codec = "VP8"]),
      Some([ReencodeBase EXCEPT !.bitrate_kbps = 8000]),
      Some([ReencodeBase EXCEPT !.preset = Some("fast")]),
      Some([ReencodeBase EXCEPT !.preset = Some(DefaultPreset)]),
      Some([ReencodeBase EXCEPT !.threads = Some(2)]) }

\* the settings stored while the session and the channel also fail: absent,
\* disabled, ReencodeBase and one with another bitrate
CoreChoices ==
    { None,
      Some([ReencodeBase EXCEPT !.enabled = FALSE]),
      Some(ReencodeBase),
      Some([ReencodeBase EXCEPT !.bitrate_kbps = 8000]) }

\* the VideoSetup values the streaming engine may negotiate
VideoSetups ==
    { [format |-> "H264", width |-> 1280, height |-> 720, redraw_rate |-> 30],
      [format |-> "AV1Main8", width |-> 1280, height |-> 720, redraw_rate |-> 60] }

\* what ffmpeg's init and codec lookup/open may answer to init_pipeline
InitOutcomes == {"init_error", "codec_error", "ok"}

PacketP == [data |-> SC4 \o <<65, 18>>, keyframe |-> FALSE]
PacketK == [data |-> SC4 \o <<101, 17>>, keyframe |-> TRUE]

\* what the decoder and encoder may answer to one transcode_annexb call:
\* an error, or the packets the encoder emitted
TranscodeOutcomes ==
    { [ok |-> FALSE, packets |-> <<>>],
      [ok |-> TRUE, packets |-> <<>>],
      [ok |-> TRUE, packets |-> <<PacketK, PacketP>>] }

----------------------------------------------------------------------------
(* Annex-B scanning: video.rs split_annexb_nals, cache_parameter_sets,     *)
(* frame_has_idr, inject_headers_if_needed.                                *)

RECURSIVE ScanEnd(_, _)
\* the inner loop of split_annexb_nals: the first index >= end at which a
\* 3- or 4-byte start code begins, or the index at which the loop gives up
ScanEnd(data, end) ==
    IF end + 3 < Len(data)
    THEN IF /\ At(data, end) = 0
            /\ At(data, end + 1) = 0
            /\ \/ At(data, end + 2) = 1
               \/ /\ end + 3 < Len(data)
                  /\ At(data, end + 2) = 0
                  /\ At(data, end + 3) = 1
         THEN end
         ELSE ScanEnd(data, end + 1)
    ELSE end

\* the index right after the start code that begins at i, or -1 when none does
StartAfter(data, i) ==
    IF At(data, i) = 0 /\ At(data, i + 1) = 0 /\ At(data, i + 2) = 1
    THEN i + 3
    ELSE IF /\ i + 4 < Len(data)
            /\ At(data, i) = 0
            /\ At(data, i + 1) = 0
            /\ At(data, i + 2) = 0
            /\ At(data, i + 3) = 1
         THEN i + 4
         ELSE -1

RECURSIVE SplitFrom(_, _, _)
\* the outer loop of split_annexb_nals from index i with the NALs found so far
SplitFrom(data, i, nals) ==
    IF ~(i + 3 < Len(data))
    THEN nals
    ELSE LET start == StartAfter(data, i) IN
         IF start = -1
         THEN SplitFrom(data, i + 1, nals)
         ELSE LET e0 == ScanEnd(data, start)
                  end == IF e0 + 3 >= Len(data) THEN Len(data) ELSE e0
              IN SplitFrom(data, end,
                           IF start < end /\ end <= Len(data)
                           THEN Append(nals, SubSeq(data, start + 1, end))
                           ELSE nals)

\* split_annexb_nals(data): the loop run from index 0
split_annexb_nals(data) == SplitFrom(data, 0, <<>>)

\* nal[0] & 0x1f
NalType(nal) == nal[1] % 32

\* a faulty with_start that writes the 3-byte start code
WithShortStart(nal) == <<0, 0, 1>> \o nal

\* with_start: [0, 0, 0, 1] followed by the NAL
WithStart(nal) == <<0, 0, 0, 1>> \o nal

RECURSIVE CacheFold(_, _, _)
\* the loop of cache_parameter_sets over the NALs, in order
CacheFold(nals, sps, pps) ==
    IF nals = <<>>
    THEN [sps |-> sps, pps |-> pps]
    ELSE LET nal == Head(nals) IN
         IF nal = <<>>
         THEN CacheFold(Tail(nals), sps, pps)
         ELSE CacheFold(Tail(nals),
                        IF NalType(nal) = 7 THEN Some(WithStart(nal)) ELSE sps,
                        IF NalType(nal) = 8 THEN Some(WithStart(nal)) ELSE pps)

\* a faulty cache_parameter_sets that appends to the cached bytes instead of
\* replacing them
cache_parameter_sets_appending(annexb, sps, pps) ==
    LET found == CacheFold(split_annexb_nals(annexb), None, None) IN
    [sps |-> IF IsSome(found.sps)
             THEN Some((IF IsSome(sps) THEN Unwrap(sps) ELSE <<>>) \o
                       Unwrap(found.sps))
             ELSE sps,
     pps |-> IF IsSome(found.pps)
             THEN Some((IF IsSome(pps) THEN Unwrap(pps) ELSE <<>>) \o
                       Unwrap(found.pps))
             ELSE pps]

\* cache_parameter_sets(annexb): the caches it leaves, from the caches it finds
cache_parameter_sets(annexb, sps, pps) ==
    CacheFold(split_annexb_nals(annexb), sps, pps)

\* a faulty frame_has_idr that compares the header byte without masking it
frame_has_idr_unmasked(annexb) ==
    LET nals == split_annexb_nals(annexb) IN
    \E k \in 1..Len(nals) : nals[k] # <<>> /\ nals[k][1] = 5

\* frame_has_idr(annexb)
frame_has_idr(annexb) ==
    LET nals == split_annexb_nals(annexb) IN
    \E k \in 1..Len(nals) : nals[k] # <<>> /\ NalType(nals[k]) = 5

\* a faulty inject_headers_if_needed that leaves needs_headers set
inject_headers_every_time(frame, nh, sps, pps) ==
    IF ~nh
    THEN [frame |-> Some(frame), needs_headers |-> nh]
    ELSE IF IsSome(sps) /\ IsSome(pps)
         THEN [frame |-> Some(Unwrap(sps) \o Unwrap(pps) \o frame),
               needs_headers |-> nh]
         ELSE [frame |-> None, needs_headers |-> nh]

\* inject_headers_if_needed(frame): the frame to transcode (None when a
\* parameter set is missing) and the needs_headers it leaves
inject_headers_if_needed(frame, nh, sps, pps) ==
    IF ~nh
    THEN [frame |-> Some(frame), needs_headers |-> nh]
    ELSE IF IsSome(sps) /\ IsSome(pps)
         THEN [frame |-> Some(Unwrap(sps) \o Unwrap(pps) \o frame),
               needs_headers |-> FALSE]
         ELSE [frame |-> None, needs_headers |-> nh]

----------------------------------------------------------------------------
(* The FFmpeg pipeline adapter: ffmpeg.rs.  The frame, packet and pts       *)
(* fields only feed the codec backend and are left out; accepted records   *)
(* whether a transcode_annexb call of this pipeline has answered Ok (it    *)
(* does not influence the behaviour).                                      *)

\* FfmpegPipeline::new(config)
FfmpegPipelineNew(config) ==
    [config |-> config, initialized |-> FALSE, decoder |-> FALSE, encoder |-> FALSE,
     accepted |-> FALSE]

\* init_pipeline: init() sets initialized as soon as ffmpeg::init() answers Ok;
\* decoder and encoder are stored only when every later step succeeded
init_pipeline(pipeline, outcome) ==
    IF ~pipeline.initialized /\ outcome = "init_error"
    THEN pipeline
    ELSE IF outcome = "ok"
         THEN [pipeline EXCEPT !.initialized = TRUE, !.decoder = TRUE, !.encoder = TRUE]
         ELSE [pipeline EXCEPT !.initialized = TRUE]

\* transcode_annexb: Err(Bug) without a decoder or an encoder, else what the
\* backend answers
transcode_annexb(pipeline, outcome) ==
    IF ~pipeline.decoder \/ ~pipeline.encoder
    THEN [ok |-> FALSE, packets |-> <<>>]
    ELSE outcome

\* map_input_codec(format)
map_input_codec(format) ==
    IF format \in {"H264", "H264High8_444"} THEN Some("H264")
    ELSE IF format \in {"H265", "H265Main10"} THEN Some("HEVC")
    ELSE None

----------------------------------------------------------------------------
(* The transport sender: transport/web_socket/mod.rs.                      *)

\* an event on the channel: SendIpc(bytes) is kept as its channel, its header
\* fields and its payload bytes; RecvPacket and StartStream alike
Event(ev, channel, header, payload) ==
    [ev |-> ev, channel |-> channel, header |-> header, payload |-> payload]

\* presentation_time.as_micros() as u32: the low 32 bits
PtsU32(unit) == unit.presentation_time.lo

\* ByteBuffer, the writer over a fixed slice: it never panics and never grows
\* the slice.  A write that does not fit its slice is clipped to the bytes
\* that fit or skipped whole, the same way for the whole run.
OverflowPolicies == {"clip", "skip"}

\* the four bytes of a u32, most significant first
U32Bytes(n) ==
    <<(n \div 16777216) % 256, (n \div 65536) % 256, (n \div 256) % 256, n % 256>>

\* ByteBuffer::new(slice)
ByteBufferNew(slice) == [buffer |-> slice, position |-> 0]

\* a write of bytes at the writer's position
ByteBufferPut(bb, bytes) ==
    LET room == Len(bb.buffer) - bb.position
        fit == IF Len(bytes) <= room THEN Len(bytes)
               ELSE IF put_overflow = "clip" THEN room ELSE 0
    IN [buffer |-> [i \in 1..Len(bb.buffer) |->
                       IF bb.position < i /\ i <= bb.position + fit
                       THEN bytes[i - bb.position] ELSE bb.buffer[i]],
        position |-> bb.position + fit]

\* put_u8(value); a channel identifier byte is kept as its name
put_u8(bb, value) == ByteBufferPut(bb, <<value>>)

\* put_u32(value)
put_u32(bb, value) == ByteBufferPut(bb, U32Bytes(value))

\* vec![0; n]
ZeroVec(n) == [i \in 1..n |-> 0]

\* the length of the Vec send_video_unit hands its writer: vec![0; 5]
VideoHeaderVec == 5

\* the Vec of send_video_unit after its three writes
VideoHeader(unit) ==
    put_u32(put_u8(put_u8(ByteBufferNew(ZeroVec(VideoHeaderVec)), "HOST_VIDEO"),
                   IF unit.frame_type = "Idr" THEN 1 ELSE 0),
            PtsU32(unit)).buffer

\* the Vec of send_audio_sample after its write: vec![0], then the channel
AudioHeader == put_u8(ByteBufferNew(ZeroVec(1)), "HOST_AUDIO").buffer

\* SendIpc(WebSocketTransport(bytes)) of a Vec that was written through the
\* writer and then extended by the payload
SendIpc(written, payload) ==
    Event("SendIpc", Head(written), Tail(written), payload)

\* the offset in a message at which its payload starts
PayloadOffset(message) == 1 + Len(message.header)

\* a faulty message builder that copies the first buffer only
VideoUnitMessageFirstBuffer(unit) ==
    SendIpc(VideoHeader(unit),
            IF unit.buffers = <<>> THEN <<>> ELSE Head(unit.buffers))

\* the message send_video_unit builds: the header, then every buffer in order
VideoUnitMessage(unit) == SendIpc(VideoHeader(unit), Concat(unit.buffers))

\* the message send_audio_sample builds
AudioMessage(data) == SendIpc(AudioHeader, data)

\* a faulty channel that hands the new events over before the buffered ones
SendAhead(queue, msgs, backlog) ==
    IF Len(queue) <= backlog THEN msgs \o queue
    ELSE msgs \o SubSeq(queue, Len(queue) - backlog + 1, Len(queue))

\* Sender::send on the bounded channel, called for each of msgs in turn: the
\* events are buffered behind those the receiver has not taken yet, of which
\* the model keeps backlog (the receiver has taken the older ones by the time
\* the call returns)
SendBehind(queue, msgs, backlog) ==
    IF Len(queue) <= backlog THEN queue \o msgs
    ELSE SubSeq(queue, Len(queue) - backlog + 1, Len(queue)) \o msgs

\* the sends of a call whose receiver keeps up
Enqueue(queue, msgs) == SendBehind(queue, msgs, MaxBacklog)

\* send_video_unit(unit): Err(Closed) when the send fails; else NeedIdr when
\* compare_exchange(true, false) on needs_idr succeeds, Ok otherwise
send_video_unit(unit, alive, nidr) ==
    IF ~alive
    THEN [result |-> "Closed", msgs |-> <<>>, needs_idr |-> nidr]
    ELSE [result |-> IF nidr THEN "NeedIdr" ELSE "Ok",
          msgs |-> <<VideoUnitMessage(unit)>>,
          needs_idr |-> FALSE]

\* send_h264_annexb(data, rtp_timestamp, keyframe): one video message
send_h264_annexb(data, ts, keyframe, alive) ==
    IF ~alive
    THEN [result |-> "Closed", msgs |-> <<>>]
    ELSE [result |-> "Ok",
          msgs |-> <<Event("SendIpc", "HOST_VIDEO",
                           <<IF keyframe THEN 1 ELSE 0>> \o U32Bytes(ts),
                           data)>>]

RECURSIVE SendPacketsAndOriginal(_, _, _)
\* a faulty loop that sends the original unit behind the transcoded packets
SendPacketsAndOriginal(packets, unit, alive) ==
    IF packets = <<>>
    THEN [bytes |-> 0,
          msgs |-> IF alive THEN <<VideoUnitMessage(unit)>> ELSE <<>>]
    ELSE LET p == Head(packets)
             one == send_h264_annexb(p.data, unit.rtp_timestamp,
                                     p.keyframe \/ unit.frame_type = "Idr", alive)
             rest == SendPacketsAndOriginal(Tail(packets), unit, alive)
         IN [bytes |-> Len(p.data) + rest.bytes, msgs |-> one.msgs \o rest.msgs]

RECURSIVE SendPackets(_, _, _)
\* the loop over the transcoded packets: each is counted, then sent
SendPackets(packets, unit, alive) ==
    IF packets = <<>>
    THEN [bytes |-> 0, msgs |-> <<>>]
    ELSE LET p == Head(packets)
             one == send_h264_annexb(p.data, unit.rtp_timestamp,
                                     p.keyframe \/ unit.frame_type = "Idr", alive)
             rest == SendPackets(Tail(packets), unit, alive)
         IN [bytes |-> Len(p.data) + rest.bytes, msgs |-> one.msgs \o rest.msgs]

----------------------------------------------------------------------------
(* The stats aggregator: video.rs, VideoStats.                             *)
(*                                                                         *)
(* Time is counted in milliseconds and a Duration is a whole number of    *)
(* them.  An Instant is opaque but for its distance to another Instant;   *)
(* it is kept relative to the present, which is Instant 0, so a stored   *)
(* Instant is never positive and moves back when time passes.             *)

Now == 0
Second == 1000
\* Duration::MAX, the largest Duration
DurationMax == 2147483647

Min(a, b) == IF a <= b THEN a ELSE b
Max(a, b) == IF a >= b THEN a ELSE b

\* time d passes: a stored Instant moves back by d
Earlier(instant, d) ==
    IF IsSome(instant) THEN Some(Unwrap(instant) - d) ELSE instant

\* the Instants of the stats after time d has passed
Elapse(s, d) ==
    [s EXCEPT !.last_send = Earlier(@, d),
              !.last_bandwidth_sample = Earlier(@, d)]

\* VideoStats::default(): every Duration zero, every count zero, no Instant
VideoStatsDefault ==
    [last_send |-> None,
     min_host_processing_latency |-> 0,
     max_host_processing_latency |-> 0,
     total_host_processing_latency |-> 0,
     host_processing_frame_count |-> 0,
     min_streamer_processing_time |-> 0,
     max_streamer_processing_time |-> 0,
     total_streamer_processing_time |-> 0,
     streamer_processing_time_frame_count |-> 0,
     incoming_bytes |-> 0,
     outgoing_bytes |-> 0,
     last_bandwidth_sample |-> None]

\* the first half of analyze: the unit's samples and byte counts are folded in
Fold(s, unit, frame_processing_time, incoming_bytes, outgoing_bytes) ==
    LET h == IF IsSome(unit.frame_processing_latency)
             THEN LET l == Unwrap(unit.frame_processing_latency) IN
                  [s EXCEPT !.min_host_processing_latency = Min(@, l),
                            !.max_host_processing_latency = Max(@, l),
                            !.total_host_processing_latency = @ + l,
                            !.host_processing_frame_count = @ + 1]
             ELSE s
    IN [h EXCEPT !.min_streamer_processing_time = Min(@, frame_processing_time),
                 !.max_streamer_processing_time = Max(@, frame_processing_time),
                 !.total_streamer_processing_time = @ + frame_processing_time,
                 !.streamer_processing_time_frame_count = @ + 1,
                 !.incoming_bytes = @ + incoming_bytes,
                 !.outgoing_bytes = @ + outgoing_bytes]

\* a faulty interval test that also fires at exactly one second
SendDueAtOneSecond(s, now) ==
    IF IsSome(s.last_send) THEN Unwrap(s.last_send) + Second <= now ELSE TRUE

\* last_send.map(|last_send| last_send + 1 s < now).unwrap_or(true)
SendDue(s, now) ==
    IF IsSome(s.last_send) THEN Unwrap(s.last_send) + Second < now ELSE TRUE

\* a faulty average that rounds up
CheckedDivRoundingUp(total, count) ==
    IF count = 0 THEN 0 ELSE (total + count - 1) \div count

\* total.checked_div(count as u32).unwrap_or(Duration::ZERO); Duration
\* division rounds down to its resolution
CheckedDiv(total, count) ==
    IF count = 0 THEN 0 ELSE total \div count

\* the values collected for the packets of one emission: the latency and
\* processing-time report, and the bandwidth report, whose kbps values are
\* bytes * 8 / 1000 / seconds, that is bits per millisecond of the interval
CollectReport(s, now) ==
    [host_processing_latency |->
         IF s.host_processing_frame_count > 0
         THEN Some([min |-> s.min_host_processing_latency,
                    max |-> s.max_host_processing_latency,
                    avg |-> CheckedDiv(s.total_host_processing_latency,
                                       s.host_processing_frame_count)])
         ELSE None,
     min_streamer_processing_time |-> s.min_streamer_processing_time,
     max_streamer_processing_time |-> s.max_streamer_processing_time,
     avg_streamer_processing_time |->
         CheckedDiv(s.total_streamer_processing_time,
                    s.streamer_processing_time_frame_count),
     incoming_bits |-> s.incoming_bytes * 8,
     outgoing_bits |-> s.outgoing_bytes * 8,
     bandwidth_ms |->
         Max(IF IsSome(s.last_bandwidth_sample)
             THEN Max(now - Unwrap(s.last_bandwidth_sample), 0)
             ELSE Second,
             1)]

\* a faulty reset that leaves the byte totals standing
ClearDataKeepingBytes(s, now) ==
    [s EXCEPT !.min_host_processing_latency = DurationMax,
              !.max_host_processing_latency = 0,
              !.total_host_processing_latency = 0,
              !.host_processing_frame_count = 0,
              !.min_streamer_processing_time = DurationMax,
              !.max_streamer_processing_time = 0,
              !.total_streamer_processing_time = 0,
              !.streamer_processing_time_frame_count = 0,
              !.last_send = Some(now),
              !.last_bandwidth_sample = Some(now)]

\* the reset behind an emission
ClearData(s, now) ==
    [s EXCEPT !.min_host_processing_latency = DurationMax,
              !.max_host_processing_latency = 0,
              !.total_host_processing_latency = 0,
              !.host_processing_frame_count = 0,
              !.min_streamer_processing_time = DurationMax,
              !.max_streamer_processing_time = 0,
              !.total_streamer_processing_time = 0,
              !.streamer_processing_time_frame_count = 0,
              !.incoming_bytes = 0,
              !.outgoing_bytes = 0,
              !.last_send = Some(now),
              !.last_bandwidth_sample = Some(now)]

\* VideoStats::analyze: the stats it leaves and the report it hands to the
\* task it spawns, if it emits
analyze(s, unit, frame_processing_time, incoming_bytes, outgoing_bytes, now) ==
    LET folded == Fold(s, unit, frame_processing_time, incoming_bytes,
                       outgoing_bytes)
    IN IF SendDue(folded, now)
       THEN [stats |-> ClearData(folded, now),
             report |-> Some(CollectReport(folded, now))]
       ELSE [stats |-> folded, report |-> None]

----------------------------------------------------------------------------
(* The video relay: video.rs, StreamVideoDecoder.                          *)

\* a faulty configuration that takes 60 frames a second whatever the video
\* setup says
DeriveConfigAtSixty(reencode, setup) ==
    [encoder |-> IF reencode.codec = "H264" THEN "libx264" ELSE "libvpx",
     preset |-> IF IsSome(reencode.preset) THEN Unwrap(reencode.preset)
                ELSE DefaultPreset,
     bitrate_kbps |-> reencode.bitrate_kbps,
     fps |-> 60,
     threads |-> reencode.threads]

\* the FfmpegPipelineConfig submit_decode_unit derives from the settings
DeriveConfig(reencode, setup) ==
    [encoder |-> IF reencode.codec = "H264" THEN "libx264" ELSE "libvpx",
     preset |-> IF IsSome(reencode.preset) THEN Unwrap(reencode.preset)
                ELSE DefaultPreset,
     bitrate_kbps |-> reencode.bitrate_kbps,
     fps |-> IF IsSome(setup) THEN Unwrap(setup).redraw_rate ELSE 60,
     threads |-> reencode.threads]

\* a faulty needs_rebuild that forgets to compare the thread count
NeedsRebuildIgnoringThreads(pipeline, config) ==
    IF IsSome(pipeline)
    THEN \/ Unwrap(pipeline).config.bitrate_kbps # config.bitrate_kbps
         \/ Unwrap(pipeline).config.encoder # config.encoder
         \/ Unwrap(pipeline).config.fps # config.fps
         \/ Unwrap(pipeline).config.preset # config.preset
    ELSE TRUE

\* needs_rebuild
NeedsRebuild(pipeline, config) ==
    IF IsSome(pipeline)
    THEN \/ Unwrap(pipeline).config.bitrate_kbps # config.bitrate_kbps
         \/ Unwrap(pipeline).config.encoder # config.encoder
         \/ Unwrap(pipeline).config.fps # config.fps
         \/ Unwrap(pipeline).config.preset # config.preset
         \/ Unwrap(pipeline).config.threads # config.threads
    ELSE TRUE

\* a faulty rebuild that leaves needs_headers as it finds it
RebuildStepKeepingHeaders(reencode, setup, pipeline, nh, wfi) ==
    IF IsSome(reencode) /\ Unwrap(reencode).enabled
    THEN LET config == DeriveConfig(Unwrap(reencode), setup) IN
         IF NeedsRebuild(pipeline, config)
         THEN [ffmpeg |-> Some(FfmpegPipelineNew(config)), needs_headers |-> nh,
               waiting_for_idr |-> TRUE, rebuilt |-> TRUE]
         ELSE [ffmpeg |-> pipeline, needs_headers |-> nh,
               waiting_for_idr |-> wfi, rebuilt |-> FALSE]
    ELSE [ffmpeg |-> None, needs_headers |-> TRUE,
          waiting_for_idr |-> FALSE, rebuilt |-> FALSE]

\* the first step of submit_decode_unit: what the settings just read make of
\* the pipeline and the two flags
RebuildStep(reencode, setup, pipeline, nh, wfi) ==
    IF IsSome(reencode) /\ Unwrap(reencode).enabled
    THEN LET config == DeriveConfig(Unwrap(reencode), setup) IN
         IF NeedsRebuild(pipeline, config)
         THEN [ffmpeg |-> Some(FfmpegPipelineNew(config)), needs_headers |-> TRUE,
               waiting_for_idr |-> TRUE, rebuilt |-> TRUE]
         ELSE [ffmpeg |-> pipeline, needs_headers |-> nh,
               waiting_for_idr |-> wfi, rebuilt |-> FALSE]
    ELSE [ffmpeg |-> None, needs_headers |-> TRUE,
          waiting_for_idr |-> FALSE, rebuilt |-> FALSE]

\* the lazy initialisation of the pipeline before the transcode call
LazyInit(pipeline, setup, outcome) ==
    IF /\ IsSome(pipeline)
       /\ ~Unwrap(pipeline).initialized
       /\ IsSome(setup)
       /\ IsSome(map_input_codec(Unwrap(setup).format))
    THEN Some(init_pipeline(Unwrap(pipeline), outcome))
    ELSE pipeline

\* the record of the latest call: what it returned, what it put on the channel
\* and what it handed to the stats aggregator.  It is cleared when the
\* environment changes the session, so two records in a row are two calls
\* under the same settings, video setup, transport and channel; seq flips
\* from one call to the next.
NoCall ==
    [op |-> "none", seq |-> 0, unit |-> None, input |-> None,
     processed |-> FALSE,
     rebuilt |-> FALSE, replaced |-> FALSE, gate |-> FALSE, has_idr |-> FALSE,
     headers |-> FALSE, result |-> "Ok", status |-> 0, sent |-> <<>>,
     fed |-> None, packets |-> <<>>, transcoded |-> FALSE,
     passthrough |-> FALSE,
     send_failed |-> FALSE, analyzed |-> FALSE, incoming |-> 0, outgoing |-> 0,
     gap |-> 0, frame_processing_time |-> 0, report |-> None]

\* a faulty result of the branch without re-encoding that hands the
\* transport's error on
PassthroughResultPropagating(sent) ==
    sent.result

\* the result of the branch without re-encoding: send_video_unit's value, or
\* Ok behind a warning when it answers Err
PassthroughResult(sent) ==
    IF sent.result = "Closed" THEN "Ok" ELSE sent.result

\* the scan of the unit's frame with re-encoding on: the caches
\* cache_parameter_sets leaves, and has_idr
ScanUnit(unit) ==
    [cache |-> cache_parameter_sets(Concat(unit.buffers), cached_sps, cached_pps),
     has_idr |-> frame_has_idr(Concat(unit.buffers)) \/ unit.frame_type = "Idr"]

\* the body of submit_decode_unit once the stream and the transport sender
\* are there: the relay state it leaves and the record of the call; scanned
\* is ScanUnit(unit), init and tr are the codec backend's answers
ProcessUnit(unit, scanned, init, tr) ==
    LET reencode == reencode_settings
        enabled == IsSome(reencode) /\ Unwrap(reencode).enabled
        rb == RebuildStep(reencode, stream_setup, ffmpeg, needs_headers,
                          waiting_for_idr)
        incoming == SumLen(unit.buffers)
        full_frame == Concat(unit.buffers)
        cache == scanned.cache
        has_idr == scanned.has_idr
        force_need_idr == rb.waiting_for_idr /\ ~has_idr
        wfi == IF rb.waiting_for_idr /\ has_idr THEN FALSE ELSE rb.waiting_for_idr
        inj == inject_headers_if_needed(full_frame, rb.needs_headers,
                                        cache.sps, cache.pps)
        pipeline == LazyInit(rb.ffmpeg, stream_setup, init)
        called == IsSome(pipeline) /\ IsSome(inj.frame)
        tres == IF called THEN transcode_annexb(Unwrap(pipeline), tr)
                ELSE [ok |-> FALSE, packets |-> <<>>]
        did_transcode == called /\ tres.ok
        sp == SendPackets(tres.packets, unit, receiver_alive)
        pt == send_video_unit(unit, receiver_alive, needs_idr)
        call == [NoCall EXCEPT !.op = "submit_decode_unit", !.seq = 1 - last.seq,
                               !.unit = Some(unit),
                               !.processed = TRUE, !.rebuilt = rb.rebuilt,
                               !.replaced = rb.rebuilt /\ IsSome(ffmpeg),
                               !.analyzed = TRUE, !.incoming = incoming]
    IN
    IF ~enabled
    THEN [ffmpeg |-> rb.ffmpeg, needs_headers |-> rb.needs_headers,
          waiting_for_idr |-> rb.waiting_for_idr,
          cached_sps |-> cached_sps, cached_pps |-> cached_pps,
          needs_idr |-> pt.needs_idr,
          call |-> [call EXCEPT !.result = PassthroughResult(pt),
                                !.sent = pt.msgs, !.passthrough = TRUE,
                                !.send_failed = (pt.result = "Closed"),
                                !.outgoing = incoming]]
    ELSE IF force_need_idr
    THEN [ffmpeg |-> rb.ffmpeg, needs_headers |-> rb.needs_headers,
          waiting_for_idr |-> wfi,
          cached_sps |-> cache.sps, cached_pps |-> cache.pps,
          needs_idr |-> needs_idr,
          call |-> [call EXCEPT !.result = "NeedIdr", !.gate = rb.waiting_for_idr,
                                !.has_idr = has_idr, !.outgoing = 0]]
    ELSE [ffmpeg |-> IF did_transcode
                     THEN Some([Unwrap(pipeline) EXCEPT !.accepted = TRUE])
                     ELSE pipeline,
          needs_headers |-> inj.needs_headers,
          waiting_for_idr |-> wfi,
          cached_sps |-> cache.sps, cached_pps |-> cache.pps,
          needs_idr |-> IF did_transcode THEN needs_idr ELSE pt.needs_idr,
          call |-> [call EXCEPT
                      !.result = "Ok", !.gate = rb.waiting_for_idr,
                      !.has_idr = has_idr,
                      !.headers = rb.needs_headers /\ ~inj.needs_headers,
                      !.fed = IF called THEN inj.frame ELSE None,
                      !.packets = tres.packets,
                      !.transcoded = did_transcode,
                      !.passthrough = ~did_transcode,
                      !.sent = IF did_transcode THEN sp.msgs ELSE pt.msgs,
                      !.send_failed =
                          IF did_transcode
                          THEN tres.packets # <<>> /\ ~receiver_alive
                          ELSE pt.result = "Closed",
                      !.outgoing =
                          IF did_transcode THEN sp.bytes
                          ELSE IF pt.result = "Closed" THEN 0 ELSE incoming]]

\* a faulty loop that sends the transcoded packets last first
RECURSIVE SendPacketsLastFirst(_, _, _)
SendPacketsLastFirst(packets, unit, alive) ==
    IF packets = <<>>
    THEN [bytes |-> 0, msgs |-> <<>>]
    ELSE LET p == Head(packets)
             one == send_h264_annexb(p.data, unit.rtp_timestamp,
                                     p.keyframe \/ unit.frame_type = "Idr", alive)
             rest == SendPacketsLastFirst(Tail(packets), unit, alive)
         IN [bytes |-> Len(p.data) + rest.bytes, msgs |-> rest.msgs \o one.msgs]

RECURSIVE SendPacketsOutside(_, _, _)
\* the loop over the transcoded packets in the branch taken outside the
\* runtime: outgoing_bytes grows by the packet's length, then the packet is
\* sent
SendPacketsOutside(packets, unit, alive) ==
    IF packets = <<>>
    THEN [bytes |-> 0, msgs |-> <<>>]
    ELSE LET data == Head(packets).data
             keyframe == Head(packets).keyframe
             sent == send_h264_annexb(data, unit.rtp_timestamp,
                                      keyframe \/ unit.frame_type = "Idr", alive)
             later == SendPacketsOutside(Tail(packets), unit, alive)
         IN [bytes |-> Len(data) + later.bytes, msgs |-> sent.msgs \o later.msgs]

\* the body of submit_decode_unit in the branch taken when the caller is
\* outside the runtime, once the transport sender is there, statement by
\* statement: the relay state it leaves and the record of the call
ProcessUnitOutside(unit, scanned, init, tr) ==
    LET reencode == reencode_settings
        on == IF IsSome(reencode) THEN Unwrap(reencode).enabled ELSE FALSE
        \* the rebuild
        config == [encoder |-> CASE Unwrap(reencode).codec = "H264" -> "libx264"
                                 [] Unwrap(reencode).codec = "VP8" -> "libvpx",
                   preset |-> IF IsSome(Unwrap(reencode).preset)
                              THEN Unwrap(Unwrap(reencode).preset)
                              ELSE DefaultPreset,
                   bitrate_kbps |-> Unwrap(reencode).bitrate_kbps,
                   fps |-> IF IsSome(stream_setup)
                           THEN Unwrap(stream_setup).redraw_rate ELSE 60,
                   threads |-> Unwrap(reencode).threads]
        needs_rebuild ==
            IF IsSome(ffmpeg)
            THEN \/ Unwrap(ffmpeg).config.bitrate_kbps # config.bitrate_kbps
                 \/ Unwrap(ffmpeg).config.encoder # config.encoder
                 \/ Unwrap(ffmpeg).config.fps # config.fps
                 \/ Unwrap(ffmpeg).config.preset # config.preset
                 \/ Unwrap(ffmpeg).config.threads # config.threads
            ELSE TRUE
        rebuilt == on /\ needs_rebuild
        ffmpeg1 == IF ~on THEN None
                   ELSE IF needs_rebuild THEN Some(FfmpegPipelineNew(config))
                   ELSE ffmpeg
        nh1 == IF ~on \/ needs_rebuild THEN TRUE ELSE needs_headers
        wfi1 == IF ~on THEN FALSE
                ELSE IF needs_rebuild THEN TRUE ELSE waiting_for_idr
        \* the byte count and the frame
        incoming_bytes == SumLen(unit.buffers)
        full_frame == Concat(unit.buffers)
        \* the gate
        has_idr == scanned.has_idr
        force_need_idr == wfi1 /\ ~has_idr
        wfi2 == IF wfi1 /\ has_idr THEN FALSE ELSE wfi1
        \* headers, initialisation, transcoding
        frame_with_headers == inject_headers_if_needed(full_frame, nh1,
                                                       scanned.cache.sps,
                                                       scanned.cache.pps)
        ffmpeg2 == IF IsSome(ffmpeg1) /\ ~Unwrap(ffmpeg1).initialized
                      /\ IsSome(stream_setup)
                      /\ IsSome(map_input_codec(Unwrap(stream_setup).format))
                   THEN Some(init_pipeline(Unwrap(ffmpeg1), init))
                   ELSE ffmpeg1
        asked == IsSome(ffmpeg2) /\ IsSome(frame_with_headers.frame)
        answer == IF asked THEN transcode_annexb(Unwrap(ffmpeg2), tr)
                  ELSE [ok |-> FALSE, packets |-> <<>>]
        did_transcode == asked /\ answer.ok
        loop == SendPacketsOutside(answer.packets, unit, receiver_alive)
        fallback == send_video_unit(unit, receiver_alive, needs_idr)
        record == [NoCall EXCEPT !.op = "submit_decode_unit",
                                 !.seq = 1 - last.seq,
                                 !.unit = Some(unit), !.processed = TRUE,
                                 !.rebuilt = rebuilt,
                                 !.replaced = rebuilt /\ IsSome(ffmpeg),
                                 !.analyzed = TRUE,
                                 !.incoming = incoming_bytes]
    IN
    IF on
    THEN IF force_need_idr
         THEN [ffmpeg |-> ffmpeg1, needs_headers |-> nh1,
               waiting_for_idr |-> wfi2,
               cached_sps |-> scanned.cache.sps,
               cached_pps |-> scanned.cache.pps,
               needs_idr |-> needs_idr,
               call |-> [record EXCEPT !.result = "NeedIdr", !.gate = wfi1,
                                       !.has_idr = has_idr, !.outgoing = 0]]
         ELSE [ffmpeg |-> IF did_transcode
                          THEN Some([Unwrap(ffmpeg2) EXCEPT !.accepted = TRUE])
                          ELSE ffmpeg2,
               needs_headers |-> frame_with_headers.needs_headers,
               waiting_for_idr |-> wfi2,
               cached_sps |-> scanned.cache.sps,
               cached_pps |-> scanned.cache.pps,
               needs_idr |-> IF did_transcode THEN needs_idr
                             ELSE fallback.needs_idr,
               call |-> [record EXCEPT
                           !.result = "Ok", !.gate = wfi1, !.has_idr = has_idr,
                           !.headers = nh1 /\ ~frame_with_headers.needs_headers,
                           !.fed = IF asked THEN frame_with_headers.frame
                                   ELSE None,
                           !.packets = answer.packets,
                           !.transcoded = did_transcode,
                           !.passthrough = ~did_transcode,
                           !.sent = IF did_transcode THEN loop.msgs
                                    ELSE fallback.msgs,
                           !.send_failed =
                               IF did_transcode
                               THEN answer.packets # <<>> /\ ~receiver_alive
                               ELSE fallback.result = "Closed",
                           !.outgoing =
                               IF did_transcode THEN loop.bytes
                               ELSE IF fallback.result = "Closed" THEN 0
                               ELSE incoming_bytes]]
    ELSE [ffmpeg |-> ffmpeg1, needs_headers |-> nh1, waiting_for_idr |-> wfi1,
          cached_sps |-> cached_sps, cached_pps |-> cached_pps,
          needs_idr |-> fallback.needs_idr,
          call |-> [record EXCEPT
                      !.result = IF fallback.result = "Closed" THEN "Ok"
                                 ELSE fallback.result,
                      !.sent = fallback.msgs, !.passthrough = TRUE,
                      !.send_failed = (fallback.result = "Closed"),
                      !.outgoing = incoming_bytes]]

\* whether submit_decode_unit gets past the IDR gate with re-encoding on
PastGate(scanned) ==
    /\ IsSome(reencode_settings) /\ Unwrap(reencode_settings).enabled
    /\ \/ ~RebuildStep(reencode_settings, stream_setup, ffmpeg, needs_headers,
                       waiting_for_idr).waiting_for_idr
       \/ scanned.has_idr

\* the answers the backend can give to the init_pipeline call of this unit:
\* all of them when the call is made, one placeholder when it is not
BackendInit(scanned) ==
    IF /\ PastGate(scanned)
       /\ LET rb == RebuildStep(reencode_settings, stream_setup, ffmpeg,
                                needs_headers, waiting_for_idr)
          IN LazyInit(rb.ffmpeg, stream_setup, "ok") # rb.ffmpeg
    THEN InitOutcomes
    ELSE {"ok"}

\* the answers the backend can give to the transcode_annexb call of this unit
BackendTranscode(scanned, init) ==
    IF /\ PastGate(scanned)
       /\ LET rb == RebuildStep(reencode_settings, stream_setup, ffmpeg,
                                needs_headers, waiting_for_idr)
              p == LazyInit(rb.ffmpeg, stream_setup, init)
          IN /\ Unwrap(p).decoder /\ Unwrap(p).encoder
             /\ rb.needs_headers =>
                    IsSome(scanned.cache.sps) /\ IsSome(scanned.cache.pps)
    THEN TranscodeOutcomes
    ELSE {[ok |-> FALSE, packets |-> <<>>]}

\* no emission yet and nothing folded in
NoWindow == [elapsed |-> None, samples |-> <<>>]

\* the samples of one unit, as the window keeps them
Sample(call) ==
    [frame_processing_time |-> call.frame_processing_time,
     host_processing_latency |-> Unwrap(call.unit).frame_processing_latency,
     incoming |-> call.incoming, outgoing |-> call.outgoing]

\* the window behind a call that folded a unit in: an emission starts a new
\* one, otherwise the unit joins it and the window grows older
WindowAfter(w, call) ==
    IF IsSome(call.report)
    THEN [elapsed |-> Some(0), samples |-> <<>>]
    ELSE [elapsed |-> IF IsSome(w.elapsed)
                      THEN Some(Unwrap(w.elapsed) + call.gap +
                                call.frame_processing_time)
                      ELSE None,
          samples |-> Append(w.samples, Sample(call))]

\* what the record of a call keeps of its caller: nothing for a caller inside
\* the runtime
CallerContext(inside) == IF inside THEN None ELSE Some("outside")

\* submit_decode_unit(unit), with the answers of the codec backend drawn
\* when the call reaches it; the call starts gap after the decoder's previous
\* reading of the clock and reads it again when the unit is dealt with, spent
\* later; the receiver has left at most backlog earlier events untaken; the
\* caller is inside the runtime (Handle::try_current() answers Ok) or on a
\* thread outside, which the record keeps as its input
SubmitDecodeUnit(inside, unit, gap, spent, backlog) ==
    /\ IF ~stream_alive \/ ~transport_sender
       THEN /\ last' = [NoCall EXCEPT !.op = "submit_decode_unit",
                                      !.seq = 1 - last.seq,
                                      !.input = CallerContext(inside),
                                      !.unit = Some(unit), !.result = "Ok"]
            /\ UNCHANGED <<relayVars, channelVars, statsVars>>
       ELSE \E scanned \in {ScanUnit(unit)} :
            \E init \in BackendInit(scanned) :
            \E tr \in BackendTranscode(scanned, init) :
            \E out \in {IF inside THEN ProcessUnit(unit, scanned, init, tr)
                        ELSE ProcessUnitOutside(unit, scanned, init, tr)} :
            \E an \in {analyze(Elapse(stats, gap + spent), unit, spent,
                               out.call.incoming, out.call.outgoing, Now)} :
            \E call \in {[out.call EXCEPT !.input = CallerContext(inside),
                                          !.gap = gap,
                                          !.frame_processing_time = spent,
                                          !.report = an.report]} :
            /\ \/ IsSome(an.report)
               \/ stats.streamer_processing_time_frame_count < MaxWindow
            /\ ffmpeg' = out.ffmpeg
            /\ needs_headers' = out.needs_headers
            /\ waiting_for_idr' = out.waiting_for_idr
            /\ cached_sps' = out.cached_sps
            /\ cached_pps' = out.cached_pps
            /\ needs_idr' = out.needs_idr
            /\ event_queue' = SendBehind(event_queue, out.call.sent, backlog)
            /\ stats' = an.stats
            /\ window' = WindowAfter(window, call)
            /\ last' = call
            /\ UNCHANGED <<receiver_alive, rttVars>>
    /\ UNCHANGED <<sessionVars, scan, put_overflow>>

\* submit_decode_unit(unit) called inside the runtime with a receiver that
\* keeps up
submit_decode_unit(unit, gap, spent) ==
    SubmitDecodeUnit(TRUE, unit, gap, spent, MaxBacklog)

\* a faulty setup that stores the video setup without the stream
setup_storing_unchecked(setup) ==
    /\ stream_setup' = Some(setup)
    /\ last' = [NoCall EXCEPT !.op = "setup", !.seq = 1 - last.seq,
                              !.status = IF stream_alive /\ transport_sender
                                         THEN 0 ELSE -1]
    /\ UNCHANGED <<stream_alive, transport_sender, reencode_settings,
                   relayVars, channelVars, scan, put_overflow, statsVars>>

\* VideoDecoder::setup(setup): -1 when the stream is gone or no transport is
\* there, else what setup_video answers (0)
setup_video_decoder(setup) ==
    /\ stream_setup' = IF stream_alive THEN Some(setup) ELSE stream_setup
    /\ last' = [NoCall EXCEPT !.op = "setup", !.seq = 1 - last.seq,
                              !.status = IF stream_alive /\ transport_sender
                                         THEN 0 ELSE -1]
    /\ UNCHANGED <<stream_alive, transport_sender, reencode_settings,
                   relayVars, channelVars, scan, put_overflow, statsVars>>

----------------------------------------------------------------------------
(* The environment of the relay.                                           *)

\* an external actor stores new reencode settings
SetReencodeSettings(s) ==
    /\ s # reencode_settings
    /\ reencode_settings' = s
    /\ UNCHANGED <<stream_alive, transport_sender, stream_setup, relayVars,
                   channelVars, scan, put_overflow, statsVars>>
    /\ last' = NoCall

\* the session stores the transport sender that new() built
AttachTransport ==
    /\ stream_alive
    /\ ~transport_sender
    /\ transport_sender' = TRUE
    /\ UNCHANGED <<stream_alive, reencode_settings, stream_setup, relayVars,
                   channelVars, scan, put_overflow, statsVars>>
    /\ last' = NoCall

\* the last owner drops the StreamConnection
DropStream ==
    /\ stream_alive
    /\ stream_alive' = FALSE
    /\ UNCHANGED <<transport_sender, reencode_settings, stream_setup, relayVars,
                   channelVars, scan, put_overflow, statsVars>>
    /\ last' = NoCall

\* the Receiver half of the event channel is dropped
CloseChannel ==
    /\ receiver_alive
    /\ receiver_alive' = FALSE
    /\ event_queue' = <<>>
    /\ UNCHANGED <<sessionVars, relayVars, needs_idr, rttVars, scan,
                   put_overflow, statsVars>>
    /\ last' = NoCall

\* poll_event: the receiver takes the oldest event
poll_event ==
    /\ receiver_alive
    /\ event_queue # <<>>
    /\ event_queue' = Tail(event_queue)
    /\ UNCHANGED <<sessionVars, relayVars, needs_idr, receiver_alive,
                   rttVars, last, scan, put_overflow, statsVars>>

----------------------------------------------------------------------------
(* The other operations of the transport sender.                           *)

\* a ServerIpcMessage: WebSocketTransport(bytes) is kept as its first byte
\* (the channel) and the rest (the payload)
IpcTransport(channel, payload) ==
    [ipc |-> "WebSocketTransport", empty |-> FALSE, channel |-> channel,
     payload |-> payload]
IpcEmpty ==
    [ipc |-> "WebSocketTransport", empty |-> TRUE, channel |-> "", payload |-> <<>>]
IpcStartStream ==
    [ipc |-> "WebSocket.StartStream", empty |-> FALSE, channel |-> "",
     payload |-> <<>>]
IpcOther == [ipc |-> "Other", empty |-> FALSE, channel |-> "", payload |-> <<>>]

IpcRequestIdr == IpcTransport("REQUEST_IDR", <<>>)

\* the messages the relay's runs draw from
RelayIpcMessages == {IpcRequestIdr}

\* the messages the transport sender's runs draw from: empty, undecodable
\* (unknown channel, truncated payload), decodable, and other IPC messages
IpcMessages ==
    { IpcEmpty, IpcRequestIdr, IpcTransport("RTT", <<0, 1>>),
      IpcTransport("RTT", <<0>>), IpcTransport("UNKNOWN", <<7>>),
      IpcStartStream, IpcOther }

\* InboundPacket::deserialize(channel, payload)
InboundDeserialize(channel, payload) ==
    IF channel = "REQUEST_IDR"
    THEN Some([kind |-> "RequestVideoIdr", sequence_number |-> 0])
    ELSE IF channel = "RTT" /\ Len(payload) = 2
         THEN Some([kind |-> "Rtt",
                    sequence_number |-> payload[1] * 256 + payload[2]])
         ELSE None

\* OutboundPacket::serialize: None for a packet that cannot be represented
OutboundSerialize(packet) ==
    IF packet.representable
    THEN Some([id |-> packet.channel, bytes |-> packet.bytes])
    ELSE None

\* the packets send() is given
OutboundPackets ==
    { [channel |-> "STATS", bytes |-> <<1, 2>>, representable |-> TRUE],
      [channel |-> "RTT", bytes |-> <<0, 1>>, representable |-> TRUE],
      [channel |-> "STATS", bytes |-> <<>>, representable |-> FALSE] }

\* the audio samples send_audio_sample is given
AudioSamples == { <<>>, <<252, 17>> }

\* a faulty send_packet that answers Closed for a packet that does not
\* serialize
send_packet_strict(packet, alive) ==
    LET ser == OutboundSerialize(packet) IN
    IF ~IsSome(ser) \/ ~alive
    THEN [result |-> "Closed", attempted |-> IsSome(ser), msgs |-> <<>>]
    ELSE [result |-> "Ok", attempted |-> TRUE,
          msgs |-> <<Event("SendIpc", Unwrap(ser).id, <<>>, Unwrap(ser).bytes)>>]

\* send_packet(event_sender, packet): Ok when the packet does not serialize,
\* Err(Closed) when the send fails
send_packet(packet, alive) ==
    LET ser == OutboundSerialize(packet) IN
    IF ~IsSome(ser)
    THEN [result |-> "Ok", attempted |-> FALSE, msgs |-> <<>>]
    ELSE IF ~alive
         THEN [result |-> "Closed", attempted |-> TRUE, msgs |-> <<>>]
         ELSE [result |-> "Ok", attempted |-> TRUE,
               msgs |-> <<Event("SendIpc", Unwrap(ser).id, <<>>, Unwrap(ser).bytes)>>]

----------------------------------------------------------------------------
(* The RTT estimator: recv_rtt.  new() runs the first round before it      *)
(* hands the sender out, so the pair starts as that round wrote it, with   *)
(* sequence number 1; every later round is a task spawned by               *)
(* on_ipc_message, and its steps are the stretches between its awaits.     *)

\* the quiescence sleep of a round, 200 ms
SleepMs == 200

\* a round as spawned: recv_sequence_number, its locals not yet set, and
\* whether it holds the guard of the pair's mutex
NewRound(recv) ==
    [recv |-> recv, pc |-> "start", sequence_number |-> 0, expected |-> TRUE,
     rtt |-> 0, timer |-> 0, holds |-> FALSE]

\* OutboundPacket::Stats(BrowserRtt { rtt_ms }) and OutboundPacket::Rtt
\* { sequence_number }, with the value in two bytes
BrowserRttPacket(rtt_ms) ==
    [channel |-> "STATS", bytes |-> <<rtt_ms \div 256, rtt_ms % 256>>,
     representable |-> TRUE]
RttPacket(sequence_number) ==
    [channel |-> "RTT",
     bytes |-> <<sequence_number \div 256, sequence_number % 256>>,
     representable |-> TRUE]

\* a faulty round trip that takes the quiescence sleep off
RoundTripWithoutSleep(send, now) == now - send - SleepMs

\* let rtt = now - send
RoundTrip(send, now) == now - send

\* the rounds with round i replaced by r
WithRound(i, r) == [rtt_rounds EXCEPT ![i] = r]

\* the rounds without round i
WithoutRound(i) ==
    SubSeq(rtt_rounds, 1, i - 1) \o SubSeq(rtt_rounds, i + 1, Len(rtt_rounds))

\* the record of a step of a round: the round as the step leaves it and the
\* messages it put on the channel
RoundStep(r, msgs) ==
    last' = [NoCall EXCEPT !.op = "recv_rtt", !.seq = 1 - last.seq,
                           !.input = Some(r), !.sent = msgs]

\* rtt_mutex.lock().await answers: the round gets the guard, which no other
\* round holds, at the start or behind its sleep
RttAcquire(i) ==
    /\ i \in DOMAIN rtt_rounds
    /\ \/ rtt_rounds[i].pc = "start"
       \/ rtt_rounds[i].pc = "sleep" /\ rtt_rounds[i].timer = 0
    /\ \A j \in DOMAIN rtt_rounds : ~rtt_rounds[j].holds
    /\ rtt_rounds' = WithRound(i, [rtt_rounds[i] EXCEPT !.holds = TRUE])
    /\ UNCHANGED <<sessionVars, relayVars, needs_idr, receiver_alive,
                   event_queue, rtt, probes, last, scan, put_overflow,
                   statsVars>>

\* recv_rtt up to its first await: the pair is read under the lock, the
\* guard is dropped at the end of the block, the sequence numbers are
\* compared and the round trip is taken
RttStart(i) ==
    /\ i \in DOMAIN rtt_rounds
    /\ rtt_rounds[i].pc = "start"
    /\ LET r == [rtt_rounds[i] EXCEPT
                    !.pc = "report",
                    !.holds = FALSE,
                    !.sequence_number = rtt.sequence_number,
                    !.expected = (rtt_rounds[i].recv = rtt.sequence_number),
                    !.rtt = RoundTrip(rtt.send, Now)]
       IN /\ rtt_rounds' = WithRound(i, r)
          /\ RoundStep(r, <<>>)
    /\ UNCHANGED <<sessionVars, relayVars, needs_idr, receiver_alive,
                   event_queue, rtt, probes, scan, put_overflow, statsVars>>

\* a faulty report step that ends the round when its send fails
RttReportGivingUp(i) ==
    /\ i \in DOMAIN rtt_rounds
    /\ rtt_rounds[i].pc = "report"
    /\ LET sent == send_packet(BrowserRttPacket(rtt_rounds[i].rtt), receiver_alive)
           r == [rtt_rounds[i] EXCEPT !.pc = "sleep", !.timer = SleepMs]
       IN /\ event_queue' = Enqueue(event_queue, sent.msgs)
          /\ rtt_rounds' = IF sent.result = "Closed" THEN WithoutRound(i)
                           ELSE WithRound(i, r)
          /\ RoundStep(r, sent.msgs)
    /\ UNCHANGED <<sessionVars, relayVars, needs_idr, receiver_alive, rtt,
                   probes, scan, put_overflow, statsVars>>

\* the round trip goes out as a stats packet; a failed send is logged; the
\* round then sleeps
RttReport(i) ==
    /\ i \in DOMAIN rtt_rounds
    /\ rtt_rounds[i].pc = "report"
    /\ LET sent == send_packet(BrowserRttPacket(rtt_rounds[i].rtt), receiver_alive)
           r == [rtt_rounds[i] EXCEPT !.pc = "sleep", !.timer = SleepMs]
       IN /\ event_queue' = Enqueue(event_queue, sent.msgs)
          /\ rtt_rounds' = WithRound(i, r)
          /\ RoundStep(r, sent.msgs)
    /\ UNCHANGED <<sessionVars, relayVars, needs_idr, receiver_alive, rtt,
                   probes, scan, put_overflow, statsVars>>

\* a faulty write that keeps the guard until the round is over
RttWriteKeepingGuard(i) ==
    /\ i \in DOMAIN rtt_rounds
    /\ rtt_rounds[i].pc = "sleep"
    /\ rtt_rounds[i].timer = 0
    /\ LET r == [rtt_rounds[i] EXCEPT
                    !.pc = "probe",
                    !.sequence_number = (@ + 1) % 65536]
       IN /\ rtt' = [send |-> Now, sequence_number |-> r.sequence_number]
          /\ rtt_rounds' = WithRound(i, r)
          /\ RoundStep(r, <<>>)
    /\ probes' = [probes EXCEPT !.age = 0]
    /\ UNCHANGED <<sessionVars, relayVars, needs_idr, receiver_alive,
                   event_queue, scan, put_overflow, statsVars>>

\* behind the sleep the round's sequence number is incremented (a u16) and
\* written into the pair with the time of the write, under the lock; the
\* guard is dropped at the end of the block
RttWrite(i) ==
    /\ i \in DOMAIN rtt_rounds
    /\ rtt_rounds[i].pc = "sleep"
    /\ rtt_rounds[i].timer = 0
    /\ LET r == [rtt_rounds[i] EXCEPT
                    !.pc = "probe",
                    !.holds = FALSE,
                    !.sequence_number = (@ + 1) % 65536]
       IN /\ rtt' = [send |-> Now, sequence_number |-> r.sequence_number]
          /\ rtt_rounds' = WithRound(i, r)
          /\ RoundStep(r, <<>>)
    /\ probes' = [probes EXCEPT !.age = 0]
    /\ UNCHANGED <<sessionVars, relayVars, needs_idr, receiver_alive,
                   event_queue, scan, put_overflow, statsVars>>

\* the probe with the round's sequence number goes out; a failed send is
\* logged; the round is over
RttProbe(i) ==
    /\ i \in DOMAIN rtt_rounds
    /\ rtt_rounds[i].pc = "probe"
    /\ LET sent == send_packet(RttPacket(rtt_rounds[i].sequence_number),
                               receiver_alive)
           r == [rtt_rounds[i] EXCEPT !.pc = "done"]
       IN /\ event_queue' = Enqueue(event_queue, sent.msgs)
          /\ rtt_rounds' = WithoutRound(i)
          /\ RoundStep(r, sent.msgs)
          /\ probes' = IF sent.msgs # <<>>
                       THEN [probes EXCEPT !.high = Max(@, r.sequence_number)]
                       ELSE probes
    /\ UNCHANGED <<sessionVars, relayVars, needs_idr, receiver_alive, rtt,
                   scan, put_overflow, statsVars>>

\* the steps by which the clock moves on
TimeSteps == {SleepMs}

\* time d passes: every stored Instant moves back and the sleeps run down.
\* The clock stops while the pair has gone unwritten for MaxIdle sleeps and
\* no round is asleep.
Advance(d) ==
    /\ \/ probes.age + d <= MaxIdle * SleepMs
       \/ \E i \in DOMAIN rtt_rounds : rtt_rounds[i].timer > 0
    /\ rtt' = [rtt EXCEPT !.send = @ - d]
    /\ rtt_rounds' = [i \in DOMAIN rtt_rounds |->
                         [rtt_rounds[i] EXCEPT !.timer = Max(@ - d, 0)]]
    /\ probes' = [probes EXCEPT !.age = @ + d]
    /\ stats' = Elapse(stats, d)
    /\ window' = [window EXCEPT !.elapsed = IF IsSome(@)
                                            THEN Some(Unwrap(@) + d) ELSE @]
    /\ UNCHANGED <<sessionVars, relayVars, needs_idr, receiver_alive,
                   event_queue, last, scan, put_overflow>>

----------------------------------------------------------------------------
(* The calls of the transport sender.                                      *)

\* what a call of the transport sender leaves: result, events, flag, rounds
TransportCall(op, input, result, attempted, msgs) ==
    /\ last' = [NoCall EXCEPT !.op = op, !.seq = 1 - last.seq,
                              !.input = Some(input),
                              !.result = result, !.sent = msgs,
                              !.passthrough = attempted,
                              !.send_failed = attempted /\ msgs = <<>>]
    /\ event_queue' = Enqueue(event_queue, msgs)
    /\ UNCHANGED <<sessionVars, relayVars, receiver_alive, rtt, scan,
                   put_overflow, statsVars>>

\* TransportSender::send(packet)
send(packet) ==
    LET r == send_packet(packet, receiver_alive) IN
    /\ TransportCall("send", packet, r.result, r.attempted, r.msgs)
    /\ UNCHANGED <<needs_idr, rtt_rounds, probes>>

\* send_audio_sample(data)
send_audio_sample(data) ==
    /\ TransportCall("send_audio_sample", data,
                     IF receiver_alive THEN "Ok" ELSE "Closed", TRUE,
                     IF receiver_alive
                     THEN <<AudioMessage(data)>>
                     ELSE <<>>)
    /\ UNCHANGED <<needs_idr, rtt_rounds, probes>>

\* send_video_unit(unit), called on the sender itself
SendVideoUnitCall(unit) ==
    LET r == send_video_unit(unit, receiver_alive, needs_idr) IN
    /\ TransportCall("send_video_unit", unit, r.result, TRUE, r.msgs)
    /\ needs_idr' = r.needs_idr
    /\ UNCHANGED <<rtt_rounds, probes>>

\* a faulty decoding that pads a truncated payload with a zero byte
IpcPacketPadded(m) ==
    IF m.ipc = "WebSocketTransport" /\ ~m.empty
    THEN IF m.channel = "RTT" /\ Len(m.payload) = 1
         THEN InboundDeserialize(m.channel, m.payload \o <<0>>)
         ELSE InboundDeserialize(m.channel, m.payload)
    ELSE None

\* the packet on_ipc_message gets out of a transport message: None for an
\* empty message and for one that does not deserialize
IpcPacket(m) ==
    IF m.ipc = "WebSocketTransport" /\ ~m.empty
    THEN InboundDeserialize(m.channel, m.payload)
    ELSE None

\* on_ipc_message(message)
on_ipc_message(m) ==
    LET packet == IpcPacket(m)
        is_idr == IsSome(packet) /\ Unwrap(packet).kind = "RequestVideoIdr"
        is_rtt == IsSome(packet) /\ Unwrap(packet).kind = "Rtt"
    IN
    /\ is_rtt => probes.rounds < MaxRounds
    /\ needs_idr' = IF is_idr THEN TRUE ELSE needs_idr
    /\ rtt_rounds' = IF is_rtt
                     THEN Append(rtt_rounds,
                                 NewRound(Unwrap(packet).sequence_number))
                     ELSE rtt_rounds
    /\ probes' = IF is_rtt THEN [probes EXCEPT !.rounds = @ + 1] ELSE probes
    /\ IF IsSome(packet)
       THEN TransportCall("on_ipc_message", m,
                          IF receiver_alive THEN "Ok" ELSE "Closed", TRUE,
                          IF receiver_alive
                          THEN <<Event("RecvPacket", Unwrap(packet).kind,
                                       <<Unwrap(packet).sequence_number>>, <<>>)>>
                          ELSE <<>>)
       ELSE IF m.ipc = "WebSocket.StartStream"
       THEN TransportCall("on_ipc_message", m,
                          IF receiver_alive THEN "Ok" ELSE "Closed", TRUE,
                          IF receiver_alive
                          THEN <<Event("StartStream", "", <<>>, <<>>)>>
                          ELSE <<>>)
       ELSE TransportCall("on_ipc_message", m, "Ok", FALSE, <<>>)

----------------------------------------------------------------------------
(* The parameter-set scanner's runs: a well-formed Annex-B frame is built  *)
(* from NAL units and scanned.                                             *)

\* a NAL unit: its header byte is 32 * nal_ref_idc + nal_unit_type
Nal(type, ref, body) == [type |-> type, bytes |-> <<32 * ref + type>> \o body]

\* NAL units with a payload, without an embedded start code and without a
\* trailing zero byte
ScanNals ==
    { Nal(7, 3, <<66>>), Nal(7, 3, <<100>>), Nal(7, 1, <<66>>),
      Nal(7, 3, <<0, 66>>), Nal(8, 3, <<206>>), Nal(8, 3, <<0, 1>>),
      Nal(5, 3, <<136>>), Nal(1, 2, <<154>>), Nal(6, 0, <<5>>) }

\* a NAL unit behind a 3- or 4-byte start code
ScanItems == { [sc |-> sc, nal |-> n] : sc \in {SC3, SC4}, n \in ScanNals }

RECURSIVE SeqsUpTo(_, _)
\* the sequences over S of length at most n
SeqsUpTo(S, n) ==
    IF n = 0 THEN { <<>> }
    ELSE LET shorter == SeqsUpTo(S, n - 1) IN
         shorter \cup { Append(q, x) : q \in shorter, x \in S }

RECURSIVE AnnexB(_)
\* the frame: every NAL unit behind its start code, in order
AnnexB(items) ==
    IF items = <<>> THEN <<>>
    ELSE Head(items).sc \o Head(items).nal.bytes \o AnnexB(Tail(items))

NoScan == [items |-> <<>>, n |-> 0, before |-> [sps |-> None, pps |-> None],
           first |-> [sps |-> None, pps |-> None]]

\* one scan of the frame: cache_parameter_sets(&full_frame)
ScanFrame ==
    LET out == cache_parameter_sets(AnnexB(scan.items), cached_sps, cached_pps) IN
    /\ scan.n < MaxScans
    /\ cached_sps' = out.sps
    /\ cached_pps' = out.pps
    /\ scan' = [scan EXCEPT !.n = @ + 1,
                            !.first = IF scan.n = 0 THEN out ELSE @]
    /\ UNCHANGED <<sessionVars, ffmpeg, needs_headers, waiting_for_idr,
                   channelVars, last, put_overflow, statsVars>>

----------------------------------------------------------------------------
(* Specifications.                                                         *)

\* the session as constructed, but for the writer: no transport yet, no
\* settings, no video setup, the decoder passing through, the channel open
\* and empty
SessionStart ==
    /\ stream_alive = TRUE
    /\ transport_sender = FALSE
    /\ reencode_settings = None
    /\ stream_setup = None
    /\ ffmpeg = None
    /\ cached_sps = None
    /\ cached_pps = None
    /\ needs_headers = TRUE
    /\ waiting_for_idr = FALSE
    /\ needs_idr = FALSE
    /\ receiver_alive = TRUE
    /\ event_queue = <<>>
    /\ rtt = [send |-> Now, sequence_number |-> 1]
    /\ rtt_rounds = <<>>
    /\ probes = [high |-> 1, age |-> 0, rounds |-> 0]
    /\ last = NoCall
    /\ scan = NoScan
    /\ stats = VideoStatsDefault
    /\ window = NoWindow

\* the relay's runs: they read no header byte, and are taken with a writer
\* that clips
Init ==
    /\ SessionStart
    /\ put_overflow = "clip"

Next ==
    \/ \E u \in Units, g \in PacedGaps, t \in PacedTimes :
           submit_decode_unit(u, g, t)
    \/ \E s \in VideoSetups : setup_video_decoder(s)
    \/ \E s \in CoreChoices : SetReencodeSettings(s)
    \/ \E m \in RelayIpcMessages : on_ipc_message(m)
    \/ AttachTransport
    \/ DropStream
    \/ CloseChannel
    \/ poll_event

Spec == Init /\ [][Next]_vars

\* the relay under every settings change, on a session and a channel that
\* stay up
NextSettings ==
    \/ \E u \in Units, g \in PacedGaps, t \in PacedTimes :
           submit_decode_unit(u, g, t)
    \/ \E s \in VideoSetups : setup_video_decoder(s)
    \/ \E s \in ReencodeChoices : SetReencodeSettings(s)
    \/ AttachTransport

SpecSettings == Init /\ [][NextSettings]_vars

\* the relay in front of a receiver that lags behind, with re-encoding
\* switched on and off
NextOrder ==
    \/ \E u \in Units, g \in PacedGaps, t \in PacedTimes :
           SubmitDecodeUnit(TRUE, u, g, t, MaxQueued)
    \/ \E s \in VideoSetups : setup_video_decoder(s)
    \/ \E s \in {None, Some(ReencodeBase)} : SetReencodeSettings(s)
    \/ AttachTransport
    \/ poll_event

SpecOrder == Init /\ [][NextOrder]_vars

\* re-encoding switched off and on
BridgeChoices ==
    { Some([ReencodeBase EXCEPT !.enabled = FALSE]), Some(ReencodeBase) }

\* the relay called from inside the runtime and from threads outside it, with
\* a receiver that has taken every earlier event
NextBridge ==
    \/ \E inside \in BOOLEAN, u \in Units, g \in PacedGaps, t \in PacedTimes :
           SubmitDecodeUnit(inside, u, g, t, 0)
    \/ \E s \in VideoSetups : setup_video_decoder(s)
    \/ \E s \in BridgeChoices : SetReencodeSettings(s)
    \/ \E m \in RelayIpcMessages : on_ipc_message(m)
    \/ AttachTransport
    \/ CloseChannel

SpecBridge == Init /\ [][NextBridge]_vars

\* the transport sender on its own
InitTransport ==
    /\ SessionStart
    /\ put_overflow \in OverflowPolicies

NextTransport ==
    \/ \E u \in Units : SendVideoUnitCall(u)
    \/ \E d \in AudioSamples : send_audio_sample(d)
    \/ \E p \in OutboundPackets : send(p)
    \/ \E m \in IpcMessages : on_ipc_message(m)
    \/ CloseChannel
    \/ poll_event

SpecTransport == InitTransport /\ [][NextTransport]_vars

\* the response to probe n that the browser sends
RttResponse(n) == IpcTransport("RTT", <<n \div 256, n % 256>>)

\* the RTT estimator: responses arrive, rounds run side by side, time passes
NextRtt ==
    \/ \E n \in 1..probes.high : on_ipc_message(RttResponse(n))
    \/ \E i \in 1..MaxRounds : RttStart(i)
    \/ \E i \in 1..MaxRounds : RttReport(i)
    \/ \E i \in 1..MaxRounds : RttWrite(i)
    \/ \E i \in 1..MaxRounds : RttProbe(i)
    \/ \E d \in TimeSteps : Advance(d)
    \/ CloseChannel

SpecRtt == Init /\ [][NextRtt]_vars

\* time d passes while some round sleeps
SleepAdvance(d) ==
    /\ \E i \in DOMAIN rtt_rounds : rtt_rounds[i].timer > 0
    /\ Advance(d)

\* the RTT estimator in front of a browser that answers the probe whose
\* number the pair holds, watched while rounds are under way
NextRttFair ==
    \/ on_ipc_message(RttResponse(rtt.sequence_number))
    \/ \E i \in 1..MaxRounds : RttStart(i)
    \/ \E i \in 1..MaxRounds : RttReport(i)
    \/ \E i \in 1..MaxRounds : RttWrite(i)
    \/ \E i \in 1..MaxRounds : RttProbe(i)
    \/ \E d \in TimeSteps : SleepAdvance(d)
    \/ CloseChannel

\* the runtime runs every spawned round on from each of its awaits, and the
\* clock moves on while a round sleeps
FairRtt ==
    /\ \A i \in 1..MaxRounds :
           /\ WF_vars(RttStart(i))
           /\ WF_vars(RttReport(i))
           /\ WF_vars(RttWrite(i))
           /\ WF_vars(RttProbe(i))
    /\ WF_vars(\E d \in TimeSteps : SleepAdvance(d))

SpecRttFair == Init /\ [][NextRttFair]_vars /\ FairRtt

\* the rounds with the taking of the pair's lock as a step of its own: a
\* round reads or writes the pair once it holds the guard
Holds(i) == i \in DOMAIN rtt_rounds /\ rtt_rounds[i].holds

NextRttLock ==
    \/ on_ipc_message(RttResponse(rtt.sequence_number))
    \/ \E i \in 1..MaxRounds : RttAcquire(i)
    \/ \E i \in 1..MaxRounds : Holds(i) /\ RttStart(i)
    \/ \E i \in 1..MaxRounds : RttReport(i)
    \/ \E i \in 1..MaxRounds : Holds(i) /\ RttWrite(i)
    \/ \E i \in 1..MaxRounds : RttProbe(i)
    \/ \E d \in TimeSteps : SleepAdvance(d)
    \/ CloseChannel

SpecRttLock == Init /\ [][NextRttLock]_vars

\* the stats aggregator under units that arrive at any pace, without
\* re-encoding
NextStats ==
    \/ \E u \in StatsUnits, g \in Gaps, t \in ProcessingTimes :
           submit_decode_unit(u, g, t)
    \/ AttachTransport
    \/ DropStream

SpecStats == Init /\ [][NextStats]_vars

\* the scanner on its own, at the point submit_decode_unit calls it with
\* re-encoding on: any frame, any caches, the flags the rebuild step can leave
InitScan ==
    /\ stream_alive = TRUE
    /\ transport_sender = TRUE
    /\ reencode_settings = Some(ReencodeBase)
    /\ stream_setup = None
    /\ ffmpeg = Some(FfmpegPipelineNew(DeriveConfig(ReencodeBase, None)))
    /\ cached_sps \in {None, Some(SC4 \o <<103, 77>>)}
    /\ cached_pps \in {None, Some(SC4 \o <<104, 77>>)}
    /\ needs_headers \in BOOLEAN
    /\ waiting_for_idr \in BOOLEAN
    /\ waiting_for_idr => needs_headers
    /\ needs_idr = FALSE
    /\ receiver_alive = TRUE
    /\ event_queue = <<>>
    /\ rtt = [send |-> Now, sequence_number |-> 1]
    /\ rtt_rounds = <<>>
    /\ probes = [high |-> 1, age |-> 0, rounds |-> 0]
    /\ last = NoCall
    /\ put_overflow = "clip"
    /\ stats = VideoStatsDefault
    /\ window = NoWindow
    /\ scan \in { [NoScan EXCEPT !.items = f,
                                 !.before = [sps |-> cached_sps, pps |-> cached_pps],
                                 !.first = [sps |-> cached_sps, pps |-> cached_pps]] :
                  f \in SeqsUpTo(ScanItems, MaxNals) }

NextScan == ScanFrame

SpecScan == InitScan /\ [][NextScan]_vars

----------------------------------------------------------------------------
(* Properties of the relay.                                                *)

\* the latest call was a submit_decode_unit that found the stream and its
\* transport sender
Processed == last.op = "submit_decode_unit" /\ last.processed

\* re-encoding is on in the stored settings (a change of the settings clears
\* the record of the latest call, so these are the settings it ran under)
ReencodeOn == IsSome(reencode_settings) /\ Unwrap(reencode_settings).enabled

\* the keyframes among the units: declared Idr, or carrying an IDR slice
KeyUnits == {UnitK, UnitI}

\* this step is a submit_decode_unit that processes its unit
SubmitStep ==
    /\ last'.op = "submit_decode_unit"
    /\ last'.seq # last.seq
    /\ last'.processed

\* C1: with re-encoding disabled or absent, every unit submit_decode_unit
\* processes is handed to the stats aggregator with outgoing_bytes equal to
\* incoming_bytes, the total length of its buffers, and goes onto the open
\* channel as one video message whose payload is its buffers concatenated in
\* order, unmodified.
C1_PassthroughUnmodified ==
    (Processed /\ ~ReencodeOn) =>
        LET unit == Unwrap(last.unit) IN
        /\ last.analyzed
        /\ last.incoming = SumLen(unit.buffers)
        /\ last.outgoing = last.incoming
        /\ receiver_alive =>
               /\ Len(last.sent) = 1
               /\ last.sent[1].ev = "SendIpc"
               /\ last.sent[1].channel = "HOST_VIDEO"
               /\ last.sent[1].payload = Concat(unit.buffers)

\* a unit of three buffers went through with re-encoding off
C1_Witness ==
    /\ Processed /\ ~ReencodeOn
    /\ last.unit = Some(UnitK)
    /\ Len(last.sent) = 1
    /\ last.outgoing = 17

\* some field of the stored settings differs from the configuration the
\* active pipeline was built with
FieldChanged ==
    /\ IsSome(ffmpeg)
    /\ IsSome(reencode_settings)
    /\ LET r == Unwrap(reencode_settings)
           c == Unwrap(ffmpeg).config
       IN \/ ~r.enabled
          \/ c.encoder # (IF r.codec = "H264" THEN "libx264" ELSE "libvpx")
          \/ c.bitrate_kbps # r.bitrate_kbps
          \/ c.preset # (IF IsSome(r.preset) THEN Unwrap(r.preset)
                         ELSE DefaultPreset)
          \/ c.threads # r.threads

\* C2 as stated: after a change to any field of the reencode configuration,
\* enabled included, a non-keyframe unit is not forwarded and
\* submit_decode_unit returns NeedIdr for it.
C2_AnyFieldChangeGates ==
    [][ (SubmitStep /\ FieldChanged /\ Unwrap(last'.unit) \notin KeyUnits)
            => (last'.result = "NeedIdr" /\ last'.sent = <<>>) ]_vars

\* C2, amended: when re-encoding stays enabled and the configuration derived
\* from the settings and the video setup differs from the active pipeline's
\* (or there is no pipeline), the pipeline is rebuilt and, from then until a
\* keyframe unit arrives, every non-keyframe unit gets NeedIdr and produces
\* no output; the keyframe unit ends the window.  With re-encoding disabled
\* or absent the unit is sent on at once.
C2_ConfigChangeGates ==
    [][ SubmitStep =>
          LET key == Unwrap(last'.unit) \in KeyUnits
              changed ==
                  \/ ~IsSome(ffmpeg)
                  \/ Unwrap(ffmpeg).config #
                         DeriveConfig(Unwrap(reencode_settings), stream_setup)
          IN IF ReencodeOn
             THEN /\ changed => last'.rebuilt /\ last'.gate
                  /\ ((changed \/ waiting_for_idr) /\ ~key) =>
                         /\ last'.result = "NeedIdr"
                         /\ last'.sent = <<>>
                         /\ last'.outgoing = 0
                         /\ waiting_for_idr'
                  /\ ((changed \/ waiting_for_idr) /\ key) =>
                         /\ last'.result = "Ok"
                         /\ ~waiting_for_idr'
             ELSE /\ last'.passthrough
                  /\ last'.result \in {"Ok", "NeedIdr"}
                  /\ ~waiting_for_idr' ]_vars

\* a change of the thread count replaced the active pipeline, and the
\* non-keyframe unit behind it is answered NeedIdr
C2_Witness ==
    /\ Processed
    /\ reencode_settings = Some([ReencodeBase EXCEPT !.threads = Some(2)])
    /\ Unwrap(ffmpeg).config.threads = Some(2)
    /\ last.unit = Some(UnitP)
    /\ last.replaced
    /\ last.gate
    /\ last.result = "NeedIdr"
    /\ waiting_for_idr

\* C3: with re-encoding enabled and no pipeline yet, and for every unit that
\* follows a processed unit under the same settings and video setup: while
\* the answers have been NeedIdr a non-keyframe unit gets NeedIdr and
\* produces no output, transcoded or passthrough, and a keyframe unit gets
\* Ok; once the answer has been Ok every later unit gets Ok.
C3_GateUntilKeyframe ==
    [][ (SubmitStep /\ ReencodeOn) =>
          LET key == Unwrap(last'.unit) \in KeyUnits
              first == ~IsSome(ffmpeg)
              follows == last.op = "submit_decode_unit" /\ last.processed
              quiet == /\ last'.sent = <<>>
                       /\ last'.outgoing = 0
                       /\ ~last'.transcoded
                       /\ ~last'.passthrough
          IN /\ (first \/ (follows /\ last.result = "NeedIdr")) =>
                    IF key THEN last'.result = "Ok"
                    ELSE last'.result = "NeedIdr" /\ quiet
             /\ (follows /\ last.result = "Ok") => last'.result = "Ok" ]_vars

\* a non-keyframe unit behind the keyframe is answered Ok and transcoded
C3_Witness ==
    /\ Processed /\ ReencodeOn
    /\ last.unit = Some(UnitP)
    /\ ~last.rebuilt
    /\ ~last.gate
    /\ last.result = "Ok"
    /\ last.transcoded
    /\ last.sent # <<>>

\* C4 as stated: a unit that passes the IDR gate while needs_headers is set
\* and SPS or PPS is not cached is neither transcoded nor forwarded:
\* outgoing_bytes is 0 and nothing goes onto the channel.
C4_InjectionFailsSafe ==
    ( /\ Processed /\ ReencodeOn
      /\ last.result = "Ok"
      /\ needs_headers
      /\ ~IsSome(cached_sps) \/ ~IsSome(cached_pps) )
        => /\ ~last.transcoded
           /\ last.sent = <<>>
           /\ last.outgoing = 0

\* C5: needs_headers is set again only by a rebuild, and a unit that passes
\* the IDR gate is handed to transcode_annexb as cached SPS, cached PPS and
\* its frame, clearing needs_headers, when needs_headers is set and both are
\* cached; is not handed over, needs_headers staying set, when one is
\* missing; and as its frame alone when needs_headers is clear.
C5_HeadersOncePerRebuild ==
    [][ (SubmitStep /\ ReencodeOn) =>
          LET frame == Concat(Unwrap(last'.unit).buffers)
              wanted == last'.rebuilt \/ needs_headers
              both == IsSome(cached_sps') /\ IsSome(cached_pps')
          IN /\ (needs_headers' /\ ~needs_headers) => last'.rebuilt
             /\ last'.result = "Ok" =>
                  /\ (wanted /\ both) =>
                         /\ last'.fed = Some(Unwrap(cached_sps') \o
                                             Unwrap(cached_pps') \o frame)
                         /\ last'.headers
                         /\ ~needs_headers'
                  /\ (wanted /\ ~both) =>
                         /\ last'.fed = None
                         /\ ~last'.headers
                         /\ needs_headers'
                  /\ ~wanted =>
                         /\ last'.fed = Some(frame)
                         /\ ~last'.headers
                         /\ ~needs_headers' ]_vars

\* a unit behind the one that carried the headers is transcoded from its
\* frame alone
C5_Witness ==
    /\ Processed /\ ReencodeOn
    /\ ~last.rebuilt
    /\ ~last.headers
    /\ last.fed = Some(Concat(UnitP.buffers))
    /\ last.transcoded
    /\ ~needs_headers

\* C8: submit_decode_unit answers Ok or NeedIdr and nothing else: without
\* the stream or its transport sender the unit is dropped with Ok; a send
\* that fails puts nothing on the channel and the unit still counts as
\* handled; and a unit that passes the gate without being transcoded
\* (missing parameter sets, failed initialisation, unsupported input codec,
\* failed transcode) takes the passthrough path.
C8_OnlyOkOrNeedIdr ==
    last.op = "submit_decode_unit" =>
        /\ last.result \in {"Ok", "NeedIdr"}
        /\ ~last.processed => (last.result = "Ok" /\ last.sent = <<>>)
        /\ (last.processed /\ last.send_failed) =>
               (last.result = "Ok" /\ last.sent = <<>>)
        /\ (last.processed /\ ReencodeOn /\ last.result = "Ok"
              /\ ~last.transcoded) => last.passthrough

\* a passthrough send on the closed channel was answered Ok
C8_Witness ==
    /\ Processed /\ ~ReencodeOn
    /\ ~receiver_alive
    /\ last.send_failed
    /\ last.result = "Ok"

\* C9 as stated: when the send of a submitted unit fails on the closed
\* channel, submit_decode_unit answers with something other than the
\* results of an accepted unit.
C9_ClosedChannelSurfaced ==
    (Processed /\ last.send_failed) => last.result \notin {"Ok", "NeedIdr"}

\* the pipeline is there with its decoder and its encoder
PipelineReady ==
    IsSome(ffmpeg) /\ Unwrap(ffmpeg).decoder /\ Unwrap(ffmpeg).encoder

\* C11: a unit processed with re-encoding enabled that the IDR gate lets by
\* is answered Ok and takes exactly one of two ways.  Either transcode_annexb
\* was called on a ready pipeline and succeeded: then the messages on the
\* open channel are its packets, one each and in order, outgoing_bytes is
\* their total size, and the original unit is not among them.  Or no
\* transcode happened: then the one message on the open channel is the
\* original unit, unmodified.
C11_TranscodeOrPassthrough ==
    (Processed /\ ReencodeOn /\ last.result # "NeedIdr") =>
        LET unit == Unwrap(last.unit) IN
        /\ last.result = "Ok"
        /\ last.transcoded # last.passthrough
        /\ last.transcoded =>
               /\ PipelineReady /\ IsSome(last.fed)
               /\ last.outgoing =
                      SumLen([i \in 1..Len(last.packets) |-> last.packets[i].data])
               /\ receiver_alive =>
                      /\ Len(last.sent) = Len(last.packets)
                      /\ \A i \in 1..Len(last.sent) :
                             /\ last.sent[i].channel = "HOST_VIDEO"
                             /\ last.sent[i].payload = last.packets[i].data
                             /\ last.sent[i].payload # Concat(unit.buffers)
        /\ last.passthrough =>
               /\ last.packets = <<>>
               /\ receiver_alive =>
                      /\ Len(last.sent) = 1
                      /\ last.sent[1].channel = "HOST_VIDEO"
                      /\ last.sent[1].payload = Concat(unit.buffers)
               /\ (~PipelineReady \/ ~IsSome(last.fed)) => ~last.transcoded

\* a transcode that yielded no packet: nothing went out, and the original
\* unit did not either
C11_Witness ==
    /\ Processed /\ ReencodeOn
    /\ receiver_alive
    /\ last.result = "Ok"
    /\ last.transcoded
    /\ last.packets = <<>>
    /\ last.sent = <<>>
    /\ last.outgoing = 0

\* C12: once the stream is dropped, submit_decode_unit answers Ok, puts
\* nothing on the channel, folds nothing into the stats and leaves the
\* pipeline, needs_headers, waiting_for_idr, the cached parameter sets and
\* the transport's keyframe flag as they are; setup answers -1 and the
\* stored video setup stays what it was.
C12_DroppedSessionNoOp ==
    [][ ~stream_alive =>
          /\ (last'.op = "submit_decode_unit" /\ last'.seq # last.seq) =>
                 /\ last'.result = "Ok"
                 /\ last'.sent = <<>>
                 /\ ~last'.analyzed
                 /\ last'.report = None
                 /\ UNCHANGED <<event_queue, stats, window, ffmpeg,
                                needs_headers, waiting_for_idr, cached_sps,
                                cached_pps, needs_idr, stream_setup>>
          /\ (last'.op = "setup" /\ last'.seq # last.seq) =>
                 /\ last'.status = -1
                 /\ UNCHANGED <<stream_setup, event_queue, stats, ffmpeg>> ]_vars

\* a unit was submitted behind the drop of a session that was re-encoding
\* and waiting for a keyframe
C12_Witness ==
    /\ ~stream_alive
    /\ transport_sender
    /\ last.op = "submit_decode_unit"
    /\ last.unit = Some(UnitK)
    /\ ReencodeOn
    /\ IsSome(ffmpeg)
    /\ waiting_for_idr
    /\ IsSome(stats.last_send)

\* C13 as stated: in every reachable state, the settings being writable at
\* any time, the pipeline handle is None whenever the stored reencode
\* settings are absent or disabled.
C13_NoPipelineWhileDisabled ==
    ~ReencodeOn => ffmpeg = None

----------------------------------------------------------------------------
(* Properties of the parameter-set scanner.                                *)

RECURSIVE LastOfType(_, _)
\* the bytes of the last NAL unit of the type the frame was built from
LastOfType(items, type) ==
    IF items = <<>>
    THEN None
    ELSE IF items[Len(items)].nal.type = type
         THEN Some(items[Len(items)].nal.bytes)
         ELSE LastOfType(SubSeq(items, 1, Len(items) - 1), type)

\* the cache entry a scan must leave for the type
CacheAfter(items, type, before) ==
    IF IsSome(LastOfType(items, type))
    THEN Some(<<0, 0, 0, 1>> \o Unwrap(LastOfType(items, type)))
    ELSE before

\* C6: after a frame is scanned, cached_sps is 00 00 00 01 followed by the
\* bytes of the frame's last NAL unit of type 7, or what it was when the
\* frame holds none, and cached_pps likewise for type 8; the frame
\* 00 00 00 01 67 42 leaves exactly these bytes as the cached SPS.
C6_CachesLastParameterSets ==
    scan.n >= 1 =>
        /\ cached_sps = CacheAfter(scan.items, 7, scan.before.sps)
        /\ cached_pps = CacheAfter(scan.items, 8, scan.before.pps)
        /\ AnnexB(scan.items) = <<0, 0, 0, 1, 103, 66>> =>
               cached_sps = Some(<<0, 0, 0, 1, 103, 66>>)

\* a frame of two SPS, the second behind a 3-byte start code, replaced the
\* cached SPS by the second and left the cached PPS alone
C6_Witness ==
    /\ scan.n = 1
    /\ AnnexB(scan.items) = <<0, 0, 0, 1, 103, 66, 0, 0, 1, 103, 100>>
    /\ scan.before.sps = Some(<<0, 0, 0, 1, 103, 77>>)
    /\ cached_sps = Some(<<0, 0, 0, 1, 103, 100>>)
    /\ cached_pps = Some(<<0, 0, 0, 1, 104, 77>>)

\* C7: a scan leaves needs_headers, waiting_for_idr and the pipeline as they
\* are, and a further scan of the same frame leaves cached_sps and cached_pps
\* as the first scan left them.
C7_CachingIdempotent ==
    [][ scan'.n # scan.n =>
          /\ UNCHANGED <<needs_headers, waiting_for_idr, ffmpeg>>
          /\ scan'.n >= 2 =>
                 /\ cached_sps' = scan'.first.sps
                 /\ cached_pps' = scan'.first.pps ]_vars

\* a frame with an SPS and a PPS was scanned twice over other cached bytes
C7_Witness ==
    /\ scan.n = 2
    /\ scan.before.sps = Some(<<0, 0, 0, 1, 103, 77>>)
    /\ scan.before.pps = Some(<<0, 0, 0, 1, 104, 77>>)
    /\ cached_sps = Some(<<0, 0, 0, 1, 103, 66>>)
    /\ cached_pps = Some(<<0, 0, 0, 1, 104, 206>>)
    /\ needs_headers

----------------------------------------------------------------------------
(* Properties of the transport sender.                                     *)

TransportOps == {"send_video_unit", "send_audio_sample", "send", "on_ipc_message"}

\* the inputs for which the operation gets to its send on the event channel
ReachesSend ==
    CASE last.op = "send" -> Unwrap(last.input).representable
      [] last.op = "on_ipc_message" ->
             Unwrap(last.input) \in {IpcRequestIdr, IpcTransport("RTT", <<0, 1>>),
                                     IpcStartStream}
      [] OTHER -> TRUE

\* C10: send_video_unit, send_audio_sample, send and on_ipc_message answer
\* Closed exactly when they get to their send and the channel is closed, and
\* then nothing is enqueued; in every other case (a packet that does not
\* serialize, an empty or undecodable inbound message, another IPC message,
\* an open channel) they answer Ok.
C10_ClosedOnlyWhenSendFails ==
    last.op \in TransportOps =>
        /\ last.result = "Closed" <=> (ReachesSend /\ ~receiver_alive)
        /\ last.result \in {"Ok", "NeedIdr", "Closed"}
        /\ last.result = "NeedIdr" => last.op = "send_video_unit"
        /\ last.result = "Closed" => last.sent = <<>>
        /\ ~ReachesSend => last.sent = <<>>

\* send answered Closed for a packet that serializes, on the closed channel
C10_Witness ==
    /\ last.op = "send"
    /\ Unwrap(last.input).representable
    /\ ~receiver_alive
    /\ last.result = "Closed"

----------------------------------------------------------------------------
(* Properties of the stats aggregator.                                     *)

\* this step is a submit_decode_unit whose unit is folded into the stats
FoldStep == SubmitStep /\ last'.analyzed

\* the samples of the window that the unit of this step completes
WindowSamples == Append(window.samples, Sample(last'))

RECURSIVE SumOver(_, _)
\* the sum of f over the sequence
SumOver(f(_), samples) ==
    IF samples = <<>> THEN 0
    ELSE f(Head(samples)) + SumOver(f, Tail(samples))

\* the host latencies among the samples
HostLatencies(samples) ==
    LET Has(x) == IsSome(x.host_processing_latency)
        with == SelectSeq(samples, Has)
    IN [i \in 1..Len(with) |-> Unwrap(with[i].host_processing_latency)]

\* the processing times among the samples
StreamerTimes(samples) ==
    [i \in 1..Len(samples) |-> samples[i].frame_processing_time]

Identity(x) == x

\* C17: a report is emitted only by a call that folds a unit in, and such a
\* call emits exactly when no report was emitted before or more than one
\* second has passed since the latest emission; so two emissions in a row
\* are more than a second apart, and a unit folded in more than a second
\* after the latest emission emits.
C17_OneReportPerSecond ==
    [][ /\ (last' # last /\ IsSome(last'.report)) => FoldStep
        /\ stats' # stats => FoldStep
        /\ FoldStep =>
              LET since == Unwrap(window.elapsed) + last'.gap +
                           last'.frame_processing_time
              IN IsSome(last'.report) <=>
                     (~IsSome(window.elapsed) \/ since > Second) ]_vars

\* a report went out 1100 ms after the one before
C17_Witness ==
    /\ Processed
    /\ IsSome(last.report)
    /\ Unwrap(last.report).bandwidth_ms = 1100
    /\ window.elapsed = Some(0)

\* C18: in every emitted report the average processing time is the sum of
\* the processing times folded in since the previous emission divided by
\* their number, and lies between the reported min and max; the same holds
\* for the host processing latency when some unit of the window supplied
\* one, and no host latency is reported when none did.
C18_AverageWithinMinMax ==
    [][ (FoldStep /\ IsSome(last'.report)) =>
          LET r == Unwrap(last'.report)
              times == StreamerTimes(WindowSamples)
              lats == HostLatencies(WindowSamples)
          IN /\ r.avg_streamer_processing_time =
                    SumOver(Identity, times) \div Len(times)
             /\ r.min_streamer_processing_time <= r.avg_streamer_processing_time
             /\ r.avg_streamer_processing_time <= r.max_streamer_processing_time
             /\ IF lats = <<>>
                THEN r.host_processing_latency = None
                ELSE /\ IsSome(r.host_processing_latency)
                     /\ LET h == Unwrap(r.host_processing_latency) IN
                        /\ h.avg = SumOver(Identity, lats) \div Len(lats)
                        /\ h.min <= h.avg
                        /\ h.avg <= h.max ]_vars

\* a report over three units whose processing times do not divide evenly and
\* two of which carry a host latency
C18_Witness ==
    /\ Processed
    /\ IsSome(last.report)
    /\ LET r == Unwrap(last.report) IN
       /\ r.avg_streamer_processing_time = 166
       /\ r.max_streamer_processing_time = 300
       /\ IsSome(r.host_processing_latency)
       /\ Unwrap(r.host_processing_latency).avg = 5
       /\ Unwrap(r.host_processing_latency).max = 7

\* C19: an emission leaves every accumulator at its identity value (min the
\* largest Duration, max zero, sums zero, counts zero, byte totals zero),
\* and the byte totals of a report are those of the units folded in since
\* the previous emission, none from before it.
C19_ResetAfterEmission ==
    [][ (FoldStep /\ IsSome(last'.report)) =>
          LET r == Unwrap(last'.report)
              In(x) == x.incoming
              Out(x) == x.outgoing
          IN /\ stats'.min_host_processing_latency = DurationMax
             /\ stats'.max_host_processing_latency = 0
             /\ stats'.total_host_processing_latency = 0
             /\ stats'.host_processing_frame_count = 0
             /\ stats'.min_streamer_processing_time = DurationMax
             /\ stats'.max_streamer_processing_time = 0
             /\ stats'.total_streamer_processing_time = 0
             /\ stats'.streamer_processing_time_frame_count = 0
             /\ stats'.incoming_bytes = 0
             /\ stats'.outgoing_bytes = 0
             /\ r.incoming_bits = 8 * SumOver(In, WindowSamples)
             /\ r.outgoing_bits = 8 * SumOver(Out, WindowSamples)
             /\ r.max_streamer_processing_time <=
                    SumOver(Identity, StreamerTimes(WindowSamples)) ]_vars

\* the report of a second window, over two units of 6 and 17 bytes
C19_Witness ==
    /\ Processed
    /\ IsSome(last.report)
    /\ Unwrap(last.report).bandwidth_ms > Second
    /\ Unwrap(last.report).incoming_bits = 8 * 23
    /\ stats.incoming_bytes = 0
    /\ stats.min_streamer_processing_time = DurationMax

----------------------------------------------------------------------------
(* Properties of the RTT estimator.                                        *)

\* this step is a step of a recv_rtt round that leaves the round at pc
RoundAt(pc) ==
    /\ last'.op = "recv_rtt"
    /\ last'.seq # last.seq
    /\ Unwrap(last'.input).pc = pc

\* the number a two-byte payload carries
U16(payload) == payload[1] * 256 + payload[2]

\* C14: a round that handles a response carrying the stored sequence number
\* takes as round trip the time passed since the pair was last written,
\* which is when the probe of that number was sent, and that value is what
\* its BrowserRtt stats packet carries onto the open channel.
C14_RoundTripIsElapsedTime ==
    [][ /\ RoundAt("report") =>
              LET r == Unwrap(last'.input) IN
              r.recv = rtt.sequence_number =>
                  /\ r.expected
                  /\ r.rtt = probes.age
        /\ RoundAt("sleep") =>
              LET r == Unwrap(last'.input) IN
              /\ \E i \in DOMAIN rtt_rounds :
                     /\ rtt_rounds[i].pc = "report"
                     /\ rtt_rounds[i].rtt = r.rtt
                     /\ rtt_rounds'[i] = r
              /\ receiver_alive =>
                     /\ Len(last'.sent) = 1
                     /\ last'.sent[1].channel = "STATS"
                     /\ U16(last'.sent[1].payload) = r.rtt ]_vars

\* a round reported 400 ms for the response to the stored number 2
C14_Witness ==
    /\ last.op = "recv_rtt"
    /\ Unwrap(last.input).pc = "sleep"
    /\ Unwrap(last.input).recv = 2
    /\ Unwrap(last.input).expected
    /\ Unwrap(last.input).rtt = 400
    /\ Len(last.sent) = 1
    /\ U16(last.sent[1].payload) = 400

\* C15 as stated: a round whose response carried another sequence number
\* than the stored one runs to its end, and the probe it sends is numbered
\* one past the received sequence number.
C15_ProbeNumberedFromResponse ==
    [][ RoundAt("done") =>
          LET r == Unwrap(last'.input) IN
          ~r.expected => r.sequence_number = r.recv + 1 ]_vars

\* C16 as stated: every probe put on the channel carries a sequence number
\* greater than that of every probe sent before it, and the sequence number
\* stored in the pair never decreases.
C16_ProbeNumbersIncrease ==
    [][ /\ (RoundAt("done") /\ last'.sent # <<>>) =>
               Unwrap(last'.input).sequence_number > probes.high
        /\ rtt'.sequence_number >= rtt.sequence_number ]_vars

----------------------------------------------------------------------------
(* The framing of the messages on the channel.                             *)

\* C20 as stated: every message the sender puts on the channel starts with
\* its channel identifier; a video message carries, behind it, the frame
\* type byte and the four bytes of the presentation time, so that the
\* unit's buffers start at offset 6; an audio message carries the sample
\* right behind the channel identifier.
C20_VideoPayloadAtOffsetSix ==
    \A i \in 1..Len(last.sent) :
        LET m == last.sent[i] IN
        m.ev = "SendIpc" =>
            /\ m.channel \in {"HOST_VIDEO", "HOST_AUDIO", "STATS", "RTT"}
            /\ last.op = "send_video_unit" =>
                   LET unit == Unwrap(last.input) IN
                   /\ m.channel = "HOST_VIDEO"
                   /\ m.header = <<IF unit.frame_type = "Idr" THEN 1 ELSE 0>>
                                     \o U32Bytes(PtsU32(unit))
                   /\ PayloadOffset(m) = 6
                   /\ m.payload = Concat(unit.buffers)
            /\ last.op = "send_audio_sample" =>
                   /\ m.channel = "HOST_AUDIO"
                   /\ PayloadOffset(m) = 1
                   /\ m.payload = Unwrap(last.input)

----------------------------------------------------------------------------
(* The inbound path of the transport sender.                               *)

\* a transport message that carries no packet: it is empty, its channel is
\* none of the inbound ones, or its payload is too short or too long
Undecodable(m) ==
    /\ m.ipc = "WebSocketTransport"
    /\ \/ m.empty
       \/ m.channel \notin {"REQUEST_IDR", "RTT"}
       \/ m.channel = "RTT" /\ Len(m.payload) # 2

\* a call of on_ipc_message was made
IpcStep == last'.op = "on_ipc_message" /\ last'.seq # last.seq

\* C21: on_ipc_message drops an empty message, one on an unrecognized
\* channel and one with a truncated payload: it answers Ok, enqueues no
\* event, spawns no round and leaves the keyframe-request flag and the RTT
\* pair as they are; a message that decodes is put on the open channel as
\* exactly one RecvPacket event carrying the packet.
C21_UndecodableDropped ==
    [][ IpcStep =>
          LET m == Unwrap(last'.input) IN
          /\ Undecodable(m) =>
                 /\ last'.result = "Ok"
                 /\ last'.sent = <<>>
                 /\ event_queue' = Enqueue(event_queue, <<>>)
                 /\ rtt_rounds' = rtt_rounds
                 /\ needs_idr' = needs_idr
                 /\ rtt' = rtt
          /\ (m.ipc = "WebSocketTransport" /\ ~Undecodable(m) /\ receiver_alive) =>
                 /\ last'.result = "Ok"
                 /\ Len(last'.sent) = 1
                 /\ last'.sent[1].ev = "RecvPacket"
                 /\ last'.sent[1].channel =
                        (IF m.channel = "RTT" THEN "Rtt" ELSE "RequestVideoIdr")
                 /\ m.channel = "RTT" =>
                        last'.sent[1].header = <<m.payload[1] * 256 + m.payload[2]>>
                 /\ event_queue' = Enqueue(event_queue, last'.sent) ]_vars

\* a truncated RTT response was dropped while a request for a keyframe was
\* pending
C21_Witness ==
    /\ last.op = "on_ipc_message"
    /\ Unwrap(last.input) = IpcTransport("RTT", <<0>>)
    /\ last.result = "Ok"
    /\ last.sent = <<>>
    /\ rtt_rounds = <<>>
    /\ needs_idr

----------------------------------------------------------------------------
(* The order of the video messages on the outbound channel.                *)

\* the events q holds from index k on
From(q, k) == SubSeq(q, k, Len(q))

\* C22: the messages of a unit are put on the channel behind every message
\* of an earlier unit that is still there, the transcoded packets of one
\* unit in the order the encoder emitted them, and the receiver takes the
\* oldest first: no message of a later unit precedes one of an earlier unit.
C22_SubmissionOrder ==
    [][ /\ SubmitStep =>
             /\ \E k \in 1..(Len(event_queue) + 1) :
                    event_queue' = From(event_queue, k) \o last'.sent
             /\ last'.transcoded =>
                    /\ Len(last'.sent) = Len(last'.packets)
                    /\ \A i \in 1..Len(last'.packets) :
                           /\ last'.sent[i].payload = last'.packets[i].data
                           /\ last'.sent[i].channel = "HOST_VIDEO"
             /\ (last'.passthrough /\ receiver_alive) =>
                    last'.sent = <<VideoUnitMessage(Unwrap(last'.unit))>>
        /\ (~SubmitStep /\ event_queue' # event_queue) =>
               event_queue' = Tail(event_queue) ]_vars

\* the two packets of a transcoded unit lie behind the message of an earlier
\* unit that was passed through
C22_Witness ==
    /\ last.op = "submit_decode_unit"
    /\ last.transcoded
    /\ last.packets = <<PacketK, PacketP>>
    /\ Len(event_queue) = 3
    /\ event_queue[1] = VideoUnitMessage(UnitP)
    /\ event_queue[2].payload = PacketK.data
    /\ event_queue[3].payload = PacketP.data
    /\ Unwrap(last.unit) # UnitP

----------------------------------------------------------------------------
(* The rebuild decision.                                                   *)

\* the configuration the settings and the video setup in force ask for
WantedEncoder == IF Unwrap(reencode_settings).codec = "VP8" THEN "libvpx" ELSE "libx264"
WantedPreset ==
    IF Unwrap(reencode_settings).preset = None THEN DefaultPreset
    ELSE Unwrap(Unwrap(reencode_settings).preset)
WantedFps == IF stream_setup = None THEN 60 ELSE Unwrap(stream_setup).redraw_rate

\* some field of the active pipeline's configuration is not the wanted one
ConfigDiffers ==
    LET c == Unwrap(ffmpeg).config IN
    \/ c.encoder # WantedEncoder
    \/ c.preset # WantedPreset
    \/ c.bitrate_kbps # Unwrap(reencode_settings).bitrate_kbps
    \/ c.fps # WantedFps
    \/ c.threads # Unwrap(reencode_settings).threads

\* C23: with re-encoding enabled, a unit rebuilds the pipeline and sets
\* needs_headers and waiting_for_idr exactly when no pipeline is active or
\* the derived configuration differs from the active one in some field; the
\* new pipeline carries the derived configuration, and the flags stay set
\* but for the keyframe and the header injection of this very unit.  With
\* all fields equal the configuration and both flags enter the rest of the
\* call as they were.
C23_RebuildIffConfigDiffers ==
    [][ (SubmitStep /\ IsSome(reencode_settings)
                    /\ Unwrap(reencode_settings).enabled) =>
          /\ last'.rebuilt <=> (ffmpeg = None \/ ConfigDiffers)
          /\ last'.rebuilt =>
                 /\ IsSome(ffmpeg')
                 /\ Unwrap(ffmpeg').config =
                        [encoder |-> WantedEncoder, preset |-> WantedPreset,
                         bitrate_kbps |-> Unwrap(reencode_settings).bitrate_kbps,
                         fps |-> WantedFps,
                         threads |-> Unwrap(reencode_settings).threads]
                 /\ last'.gate
                 /\ waiting_for_idr' \/ last'.has_idr
                 /\ needs_headers' \/ last'.headers
          /\ ~last'.rebuilt =>
                 /\ Unwrap(ffmpeg').config = Unwrap(ffmpeg).config
                 /\ last'.gate = waiting_for_idr
                 /\ waiting_for_idr' = (waiting_for_idr /\ ~last'.has_idr)
                 /\ last'.headers => needs_headers
                 /\ ~last'.headers => needs_headers' = needs_headers ]_vars

\* a pipeline was replaced because the thread count alone had changed, and
\* both flags stand
C23_Witness ==
    /\ last.op = "submit_decode_unit"
    /\ last.replaced
    /\ reencode_settings = Some([ReencodeBase EXCEPT !.threads = Some(2)])
    /\ Unwrap(ffmpeg).config.threads = Some(2)
    /\ needs_headers
    /\ waiting_for_idr

----------------------------------------------------------------------------
(* The byte counts handed to the stats.                                    *)

RECURSIVE PayloadBytes(_)
\* the payload bytes of the messages a call put on the channel
PayloadBytes(msgs) ==
    IF msgs = <<>> THEN 0
    ELSE Len(Head(msgs).payload) + PayloadBytes(Tail(msgs))

\* C24 as stated: the outgoing byte count a call hands to the stats is the
\* number of payload bytes it has sent: 0 for a unit the gate dropped, 0 for
\* a send that failed, the sizes of the transcoded packets sent, or the
\* unit's size when it was passed through.
C24_OutgoingIsBytesSent ==
    (last.op = "submit_decode_unit" /\ last.analyzed) =>
        last.outgoing = PayloadBytes(last.sent)

----------------------------------------------------------------------------
(* The first report of an accumulator.                                     *)

\* the time between the previous sample point and the clock reading of this
\* step; the accumulator's creation stands for the sample point before the
\* first report
SinceSamplePoint ==
    (IF IsSome(window.elapsed) THEN Unwrap(window.elapsed) ELSE 0)
        + last'.gap + last'.frame_processing_time

\* C25 as stated: every bandwidth report, the first one included, divides
\* the byte totals of its window by the time that has passed since the
\* previous sample point (at least one millisecond), never by a fixed second.
C25_BandwidthOverElapsedTime ==
    [][ (FoldStep /\ IsSome(last'.report)) =>
          Unwrap(last'.report).bandwidth_ms = Max(SinceSamplePoint, 1) ]_vars

\* the smallest of a non-empty sequence of Durations
Smallest(values) ==
    CHOOSE v \in {values[i] : i \in 1..Len(values)} :
        \A i \in 1..Len(values) : v <= values[i]

\* C26 as stated: in every emitted report, the first one after the
\* accumulator was created included, the reported min of the processing
\* time is the smallest processing time folded in since the last emission,
\* and so is the min of the host latency when the window holds one.
C26_MinIsSmallestSample ==
    [][ (FoldStep /\ IsSome(last'.report)) =>
          LET r == Unwrap(last'.report)
              times == StreamerTimes(WindowSamples)
              lats == HostLatencies(WindowSamples)
          IN /\ r.min_streamer_processing_time = Smallest(times)
             /\ lats # <<>> =>
                    Unwrap(r.host_processing_latency).min = Smallest(lats) ]_vars

\* the same two statements for the reports behind the first one
LaterReportsOverElapsedTime ==
    [][ (FoldStep /\ IsSome(last'.report) /\ IsSome(window.elapsed)) =>
          Unwrap(last'.report).bandwidth_ms = Max(SinceSamplePoint, 1) ]_vars

LaterReportsMinIsSmallest ==
    [][ (FoldStep /\ IsSome(last'.report) /\ IsSome(window.elapsed)) =>
          LET r == Unwrap(last'.report)
              times == StreamerTimes(WindowSamples)
              lats == HostLatencies(WindowSamples)
          IN /\ r.min_streamer_processing_time = Smallest(times)
             /\ lats # <<>> =>
                    Unwrap(r.host_processing_latency).min = Smallest(lats) ]_vars

----------------------------------------------------------------------------
(* The progress of the RTT rounds.                                         *)

\* the rounds that have run to their end
Completed == probes.rounds - Len(rtt_rounds)

\* C27: every RTT response spawns exactly one round; a round puts one
\* BrowserRtt stats message on the open channel, then writes the time and
\* its new sequence number into the pair without sending, then puts one
\* probe with that sequence number on the open channel, and ends nowhere
\* else; a send that fails leaves the round going; and every round spawned
\* runs to its end, whether the channel is open or not.
C27_EveryRoundCompletes ==
    /\ [][ /\ IpcStep =>
                 LET m == Unwrap(last'.input) IN
                 IF m.ipc = "WebSocketTransport" /\ ~Undecodable(m)
                    /\ m.channel = "RTT"
                 THEN rtt_rounds' = Append(rtt_rounds, NewRound(U16(m.payload)))
                 ELSE rtt_rounds' = rtt_rounds
           /\ RoundAt("sleep") =>
                 /\ Len(rtt_rounds') = Len(rtt_rounds)
                 /\ rtt' = rtt
                 /\ IF receiver_alive
                    THEN /\ Len(last'.sent) = 1
                         /\ last'.sent[1].channel = "STATS"
                    ELSE last'.sent = <<>>
           /\ RoundAt("probe") =>
                 LET r == Unwrap(last'.input) IN
                 /\ \E i \in DOMAIN rtt_rounds :
                        /\ rtt_rounds[i].pc = "sleep"
                        /\ rtt_rounds[i].timer = 0
                        /\ r.sequence_number =
                               (rtt_rounds[i].sequence_number + 1) % 65536
                        /\ rtt_rounds' = WithRound(i, r)
                 /\ rtt' = [send |-> Now, sequence_number |-> r.sequence_number]
                 /\ last'.sent = <<>>
                 /\ event_queue' = event_queue
           /\ RoundAt("done") =>
                 LET r == Unwrap(last'.input) IN
                 /\ \E i \in DOMAIN rtt_rounds :
                        /\ rtt_rounds[i].pc = "probe"
                        /\ rtt_rounds[i].sequence_number = r.sequence_number
                        /\ rtt_rounds' = WithoutRound(i)
                 /\ rtt' = rtt
                 /\ IF receiver_alive
                    THEN /\ Len(last'.sent) = 1
                         /\ last'.sent[1].channel = "RTT"
                         /\ U16(last'.sent[1].payload) = r.sequence_number
                    ELSE last'.sent = <<>>
           /\ Len(rtt_rounds') < Len(rtt_rounds) => RoundAt("done") ]_vars
    /\ \A n \in 1..MaxRounds : (probes.rounds >= n) ~> (Completed >= n)

\* two rounds were spawned and both have run to their end on the open
\* channel; the latest put the probe with the number it had written on it
C27_Witness ==
    /\ probes.rounds = 2
    /\ rtt_rounds = <<>>
    /\ receiver_alive
    /\ last.op = "recv_rtt"
    /\ Unwrap(last.input).pc = "done"
    /\ Len(last.sent) = 1
    /\ U16(last.sent[1].payload) = Unwrap(last.input).sequence_number
    /\ rtt.sequence_number = Unwrap(last.input).sequence_number

----------------------------------------------------------------------------
(* The lock on the RTT pair.                                               *)

\* round i sleeps, or has a send on the channel ahead of it
Suspended(i) ==
    \/ rtt_rounds[i].pc = "sleep" /\ rtt_rounds[i].timer > 0
    \/ rtt_rounds[i].pc \in {"report", "probe"}

\* C28: no round holds the lock on the RTT pair while it sleeps or while a
\* send of its on the channel is pending, at most one round holds it, and a
\* step of a round touches nothing of the session (the transport sender,
\* the stream setup) while it holds it or otherwise.
C28_RttLockShortLived ==
    /\ [](\A i \in DOMAIN rtt_rounds :
             /\ Suspended(i) => ~rtt_rounds[i].holds
             /\ \A j \in DOMAIN rtt_rounds :
                    (rtt_rounds[i].holds /\ rtt_rounds[j].holds) => i = j)
    /\ [][ (last'.op = "recv_rtt" /\ last'.seq # last.seq) =>
               UNCHANGED sessionVars ]_vars

\* one round holds the guard behind its sleep while another round sleeps
C28_Witness ==
    /\ Len(rtt_rounds) = 2
    /\ rtt_rounds[1].holds
    /\ rtt_rounds[1].pc = "sleep"
    /\ rtt_rounds[2].pc = "sleep"
    /\ rtt_rounds[2].timer > 0

----------------------------------------------------------------------------
(* The browser's requests for a keyframe.                                  *)

\* this step is a submit_decode_unit that put its unit, or what the encoder
\* made of it, on the channel
ForwardStep == SubmitStep /\ last'.sent # <<>>

\* C29 as stated: a unit that is forwarded while a RequestVideoIdr is
\* pending makes submit_decode_unit return NeedIdr and takes the request (or
\* the several requests) off, with re-encoding off or on, and a unit
\* forwarded with no request pending returns Ok.
C29_RequestAnswered ==
    [][ ForwardStep =>
          /\ (last'.result = "NeedIdr") <=> needs_idr
          /\ ~needs_idr' ]_vars

\* the same for the units forwarded with re-encoding off
RequestAnsweredWhenOff ==
    [][ (ForwardStep /\ ~ReencodeOn) =>
          /\ (last'.result = "NeedIdr") <=> needs_idr
          /\ ~needs_idr' ]_vars

----------------------------------------------------------------------------
(* The combinations of the relay's flags.                                  *)

\* C30: in every state reached from the decoder as constructed, by units
\* and changes of the settings and the video setup in any order,
\* waiting_for_idr implies needs_headers and an active pipeline, and no
\* pipeline implies needs_headers and not waiting_for_idr; so
\* waiting_for_idr without needs_headers is never reached.
C30_FlagCombinations ==
    /\ waiting_for_idr => (needs_headers /\ IsSome(ffmpeg))
    /\ ffmpeg = None => (needs_headers /\ ~waiting_for_idr)
    /\ ~(waiting_for_idr /\ ~needs_headers)

\* a unit without a keyframe was held back by the gate of an active
\* pipeline while both parameter sets are cached: both flags stand
C30_Witness ==
    /\ Processed
    /\ last.gate
    /\ ~last.has_idr
    /\ ~last.rebuilt
    /\ last.result = "NeedIdr"
    /\ waiting_for_idr
    /\ needs_headers
    /\ IsSome(ffmpeg)
    /\ IsSome(cached_sps)
    /\ IsSome(cached_pps)

----------------------------------------------------------------------------
(* The first frame a rebuilt pipeline accepts.                             *)

\* this step is a submit_decode_unit whose transcode call is the first of
\* its pipeline to answer Ok
FirstAccepted ==
    /\ SubmitStep
    /\ last'.transcoded
    /\ last'.rebuilt \/ ~Unwrap(ffmpeg).accepted

\* C31 as stated: the first frame a pipeline's transcode call accepts after
\* a rebuild begins with the cached SPS followed by the cached PPS, whatever
\* happened to the units before it.
C31_FirstFrameCarriesHeaders ==
    [][ FirstAccepted =>
          /\ IsSome(cached_sps') /\ IsSome(cached_pps')
          /\ last'.fed = Some(Unwrap(cached_sps') \o Unwrap(cached_pps') \o
                              Concat(Unwrap(last'.unit).buffers)) ]_vars


\* C32 as stated: the first frame a pipeline's transcode call accepts after
\* a rebuild contains a keyframe (an IDR NAL, or its unit is of frame type
\* Idr), also when the keyframe that opened the gate was passed through.
C32_FirstFrameIsKeyframe ==
    [][ FirstAccepted =>
          \/ Unwrap(last'.unit).frame_type = "Idr"
          \/ frame_has_idr(Concat(Unwrap(last'.unit).buffers)) ]_vars

----------------------------------------------------------------------------
(* The initialisation of the pipeline.                                     *)

\* C33 as stated: a pipeline is marked initialized only when its decoder
\* and its encoder were both created, so a failed init_pipeline is tried
\* again on the next unit and transcode_annexb is never called on an
\* initialized pipeline that lacks one of them.
C33_InitializedHasCodecs ==
    (IsSome(ffmpeg) /\ Unwrap(ffmpeg).initialized) =>
        (Unwrap(ffmpeg).decoder /\ Unwrap(ffmpeg).encoder)

----------------------------------------------------------------------------
(* The two bridging branches of submit_decode_unit.                        *)

\* the relay state and the record of the call as this step left them
StepOutcome ==
    [ffmpeg |-> ffmpeg', needs_headers |-> needs_headers',
     waiting_for_idr |-> waiting_for_idr', cached_sps |-> cached_sps',
     cached_pps |-> cached_pps', needs_idr |-> needs_idr',
     call |-> [last' EXCEPT !.input = None, !.gap = 0,
                            !.frame_processing_time = 0, !.report = None]]

\* the answers the codec backend may give to the calls of one submission
BackendAnswers(scanned) ==
    UNION { { <<init, tr>> : tr \in BackendTranscode(scanned, init) } :
            init \in BackendInit(scanned) }

\* C34: from the state a unit is submitted in, the branch taken inside the
\* runtime and the branch taken outside it produce, for every answer of the
\* codec backend, the same result, the same messages in the same order, the
\* same byte counts for the stats and the same relay state; and what the
\* call has done, whichever branch it took, is what either of them produces.
C34_BranchesEquivalent ==
    [][ SubmitStep =>
          \E unit \in {Unwrap(last'.unit)} :
          \E scanned \in {ScanUnit(unit)} :
          \E both \in {{ <<ProcessUnit(unit, scanned, init, tr),
                            ProcessUnitOutside(unit, scanned, init, tr)>> :
                          <<init, tr>> \in BackendAnswers(scanned) }} :
             /\ \A pair \in both : pair[1] = pair[2]
             /\ \E pair \in both : StepOutcome = pair[1] /\ StepOutcome = pair[2]
             /\ event_queue' = SendBehind(event_queue, last'.sent, 0) ]_vars

\* a call from a thread outside the runtime rebuilt the pipeline and put the
\* two packets the encoder made of its unit on the channel
C34_Witness ==
    /\ Processed
    /\ last.input = Some("outside")
    /\ last.rebuilt
    /\ last.transcoded
    /\ Len(last.sent) = 2
    /\ last.sent[1].payload = PacketK.data
    /\ last.sent[2].payload = PacketP.data

====
